---- MODULE Spec2Model ----
(***************************************************************************)
(* api-forward: the configuration-driven dispatcher GET /:apiKey, the      *)
(* proxy executor handleProxyRequest and the registry replacement          *)
(* POST /config, as implemented by src/index.js and by the refactored      *)
(* server src/unnamed/part_000.                                            *)
(*                                                                         *)
(* A JavaScript string is a sequence of one-character strings, so that     *)
(* concatenation, percent-encoding, URL parsing and the image-extension    *)
(* regular expression are computed character by character.  The value     *)
(* undefined is Undef.                                                     *)
(***************************************************************************)
EXTENDS Integers, Sequences, FiniteSets, TLC

Undef == <<"undefined">>
NoValues == <<Undef>>

\* JavaScript truthiness of a string-or-undefined value
Truthy(v) == v # Undef /\ v # <<>>

\* template-literal interpolation `${v}`
Interp(v) == IF v = Undef THEN <<"u","n","d","e","f","i","n","e","d">> ELSE v

\* a || b on string-or-undefined values
OrElse(a, b) == IF Truthy(a) THEN a ELSE b

Digits == {"0","1","2","3","4","5","6","7","8","9"}
LowerLetters == {"a","b","c","d","e","f","g","h","i","j","k","l","m",
                 "n","o","p","q","r","s","t","u","v","w","x","y","z"}
UpperLetters == {"A","B","C","D","E","F","G","H","I","J","K","L","M",
                 "N","O","P","Q","R","S","T","U","V","W","X","Y","Z"}
AlphaNum == Digits \cup LowerLetters \cup UpperLetters

LowerOf == [c \in {"G","I","F","P","N","J","E","B","M","S","V","W"} |->
              CASE c = "G" -> "g" [] c = "I" -> "i" [] c = "F" -> "f"
                [] c = "P" -> "p" [] c = "N" -> "n" [] c = "J" -> "j"
                [] c = "E" -> "e" [] c = "B" -> "b" [] c = "M" -> "m"
                [] c = "S" -> "s" [] c = "V" -> "v" [] c = "W" -> "w"]

\* String.prototype.toLowerCase on the letters the extension pattern uses
ToLower(s) == [i \in 1..Len(s) |-> IF s[i] \in DOMAIN LowerOf THEN LowerOf[s[i]] ELSE s[i]]

StartsWith(s, p) == Len(s) >= Len(p) /\ SubSeq(s, 1, Len(p)) = p

\* String.prototype.includes for a one-character needle
Includes(s, c) == \E i \in 1..Len(s) : s[i] = c

\* Array.prototype.includes
ArrIncludes(arr, v) == \E i \in 1..Len(arr) : arr[i] = v

Drop(s, n) == SubSeq(s, n + 1, Len(s))

\* index of the first character of s that is in set cs, or Len(s)+1
RECURSIVE FirstOf(_, _, _)
FirstOf(s, cs, i) ==
    IF i > Len(s) THEN Len(s) + 1
    ELSE IF s[i] \in cs THEN i ELSE FirstOf(s, cs, i + 1)

\* String.prototype.split for a one-character separator
RECURSIVE Split(_, _)
Split(s, sep) ==
    LET i == FirstOf(s, {sep}, 1)
    IN  IF i > Len(s) THEN <<s>>
        ELSE <<SubSeq(s, 1, i - 1)>> \o Split(Drop(s, i), sep)

\* Array.prototype.join
RECURSIVE Join(_, _)
Join(arr, sep) ==
    IF Len(arr) = 0 THEN <<>>
    ELSE IF Len(arr) = 1 THEN arr[1]
    ELSE arr[1] \o sep \o Join(Tail(arr), sep)

(***************************************************************************)
(* Percent-encoding.  PctCode gives the escape of every non-alphanumeric   *)
(* character the model's strings use (upper-case hex, as the platform      *)
(* emits it).                                                              *)
(***************************************************************************)
PctCode == [c \in {" ", ",", "/", ":", "?", "=", "&", "%", "+", "#", "!", "~", "\""} |->
              CASE c = " " -> <<"%","2","0">> [] c = "," -> <<"%","2","C">>
                [] c = "/" -> <<"%","2","F">> [] c = ":" -> <<"%","3","A">>
                [] c = "?" -> <<"%","3","F">> [] c = "=" -> <<"%","3","D">>
                [] c = "&" -> <<"%","2","6">> [] c = "%" -> <<"%","2","5">>
                [] c = "+" -> <<"%","2","B">> [] c = "#" -> <<"%","2","3">>
                [] c = "!" -> <<"%","2","1">> [] c = "~" -> <<"%","7","E">>
                [] c = "\"" -> <<"%","2","2">>]

UriUnreserved == AlphaNum \cup {"-", "_", ".", "!", "~", "*", "'", "(", ")"}
FormUnreserved == AlphaNum \cup {"*", "-", ".", "_"}

RECURSIVE encodeURIComponent(_)
encodeURIComponent(s) ==
    IF s = <<>> THEN <<>>
    ELSE (IF s[1] \in UriUnreserved THEN <<s[1]>> ELSE PctCode[s[1]])
         \o encodeURIComponent(Tail(s))

\* application/x-www-form-urlencoded byte serializer (URLSearchParams)
RECURSIVE FormEncode(_)
FormEncode(s) ==
    IF s = <<>> THEN <<>>
    ELSE (IF s[1] \in FormUnreserved THEN <<s[1]>>
          ELSE IF s[1] = " " THEN <<"+">>
          ELSE PctCode[s[1]])
         \o FormEncode(Tail(s))

\* percent-decoding of a form-urlencoded name or value ("+" is a space)
RECURSIVE FormDecode(_)
FormDecode(s) ==
    IF s = <<>> THEN <<>>
    ELSE IF s[1] = "+" THEN <<" ">> \o FormDecode(Tail(s))
    ELSE IF s[1] = "%" /\ Len(s) >= 3
            /\ \E c \in DOMAIN PctCode : PctCode[c] = SubSeq(s, 1, 3)
         THEN <<CHOOSE c \in DOMAIN PctCode : PctCode[c] = SubSeq(s, 1, 3)>>
              \o FormDecode(Drop(s, 3))
    ELSE <<s[1]>> \o FormDecode(Tail(s))

\* URLSearchParams serialization of a list of <<name, value>> pairs
RECURSIVE FormSerialize(_)
FormSerialize(pairs) ==
    IF Len(pairs) = 0 THEN <<>>
    ELSE FormEncode(pairs[1][1]) \o <<"=">> \o FormEncode(pairs[1][2])
         \o (IF Len(pairs) = 1 THEN <<>> ELSE <<"&">> \o FormSerialize(Tail(pairs)))

\* URLSearchParams parsing of a query string into <<name, value>> pairs
RECURSIVE FormParsePieces(_)
FormParsePieces(pieces) ==
    IF Len(pieces) = 0 THEN <<>>
    ELSE LET p == pieces[1]
             i == FirstOf(p, {"="}, 1)
         IN  (IF p = <<>> THEN <<>>
              ELSE << <<FormDecode(SubSeq(p, 1, i - 1)), FormDecode(Drop(p, i))>> >>)
             \o FormParsePieces(Tail(pieces))

FormParse(q) == FormParsePieces(Split(q, "&"))

(***************************************************************************)
(* new URL(s), url.searchParams.append and url.toString(), for http(s)     *)
(* URLs: a string without an http(s) scheme or with an empty host does not *)
(* parse (the constructor throws); a parsed URL with an empty path         *)
(* serializes with the path "/"; appending through searchParams rewrites   *)
(* the whole query as the serialization of the parsed pair list.           *)
(***************************************************************************)
SchemeHttps == <<"h","t","t","p","s",":","/","/">>
SchemeHttp == <<"h","t","t","p",":","/","/">>

URLParse(s) ==
    LET pre == IF StartsWith(s, SchemeHttps) THEN SchemeHttps
               ELSE IF StartsWith(s, SchemeHttp) THEN SchemeHttp ELSE <<>>
        rest == Drop(s, Len(pre))
        h == FirstOf(rest, {"/", "?", "#"}, 1)
        host == SubSeq(rest, 1, h - 1)
        afterHost == Drop(rest, h - 1)
        p == FirstOf(afterHost, {"?", "#"}, 1)
        path == SubSeq(afterHost, 1, p - 1)
        afterPath == Drop(afterHost, p - 1)
        hasQuery == afterPath # <<>> /\ afterPath[1] = "?"
        f == FirstOf(afterPath, {"#"}, 1)
    IN  [ok |-> pre # <<>> /\ host # <<>>,
         origin |-> pre \o host,
         path |-> IF path = <<>> THEN <<"/">> ELSE path,
         query |-> IF hasQuery THEN SubSeq(afterPath, 2, f - 1) ELSE Undef,
         fragment |-> IF f <= Len(afterPath) THEN Drop(afterPath, f) ELSE Undef]

URLToString(u) ==
    u.origin \o u.path
    \o (IF u.query = Undef THEN <<>> ELSE <<"?">> \o u.query)
    \o (IF u.fragment = Undef THEN <<>> ELSE <<"#">> \o u.fragment)

\* the <<name, value>> list behind url.searchParams
SearchParams(u) == FormParse(IF u.query = Undef THEN <<>> ELSE u.query)

\* base.searchParams.append(key, value) for every entry of pairs, in order
SearchParamsAppend(u, pairs) ==
    [u EXCEPT !.query = FormSerialize(SearchParams(u) \o pairs)]

\* imageUrl.match(/\.(jpeg|jpg|gif|png|webp|bmp|svg)/i): unanchored, case-insensitive
ImageExts == { <<"j","p","e","g">>, <<"j","p","g">>, <<"g","i","f">>, <<"p","n","g">>,
               <<"w","e","b","p">>, <<"b","m","p">>, <<"s","v","g">> }

MatchesImageExt(s) ==
    \E i \in 1..Len(s) :
        /\ s[i] = "."
        /\ \E e \in ImageExts :
              /\ Len(s) >= i + Len(e)
              /\ ToLower(SubSeq(s, i + 1, i + Len(e))) = e

(***************************************************************************)
(* JSON values: a string, an object (its members in order, as <<key,       *)
(* value>> pairs) or undefined.  JSONParse is the parser the HTTP client   *)
(* applies to a response body; JSONStringify is what res.json sends.       *)
(***************************************************************************)
JStr(s) == [t |-> "str", v |-> s, m |-> <<>>]
JObj(members) == [t |-> "obj", v |-> <<>>, m |-> members]
JUndef == [t |-> "undef", v |-> <<>>, m |-> <<>>]

\* current[key] on an object
Prop(obj, key) ==
    IF \E i \in 1..Len(obj.m) : obj.m[i][1] = key
    THEN obj.m[CHOOSE i \in 1..Len(obj.m) : obj.m[i][1] = key][2]
    ELSE JUndef

\* "abc"[key]: an index into the string, else undefined
StrProp(val, key) ==
    IF Len(key) = 1 /\ key[1] \in Digits
       /\ \E i \in 1..Len(val.v) : <<ToString(i - 1)>> = key
    THEN JStr(<<val.v[CHOOSE i \in 1..Len(val.v) : <<ToString(i - 1)>> = key]>>)
    ELSE JUndef

RECURSIVE SkipWs(_)
SkipWs(s) == IF s # <<>> /\ s[1] = " " THEN SkipWs(Tail(s)) ELSE s

ParseFail == [ok |-> FALSE, val |-> JUndef, rest |-> <<>>]

ParseString(s) ==
    LET body == Tail(s)
        j == FirstOf(body, {"\""}, 1)
    IN  IF j > Len(body) THEN ParseFail
        ELSE [ok |-> TRUE, val |-> JStr(SubSeq(body, 1, j - 1)), rest |-> Drop(body, j)]

RECURSIVE ParseValue(_)
RECURSIVE ParseMembers(_, _)
ParseValue(s0) ==
    LET s == SkipWs(s0)
    IN  IF s = <<>> THEN ParseFail
        ELSE IF s[1] = "\"" THEN ParseString(s)
        ELSE IF s[1] = "{" THEN
            LET inner == SkipWs(Tail(s))
            IN  IF inner # <<>> /\ inner[1] = "}"
                THEN [ok |-> TRUE, val |-> JObj(<<>>), rest |-> Tail(inner)]
                ELSE ParseMembers(inner, <<>>)
        ELSE ParseFail

ParseMembers(s, acc) ==
    IF s = <<>> \/ s[1] # "\"" THEN ParseFail
    ELSE LET k == ParseString(s)
             c == SkipWs(k.rest)
         IN  IF ~k.ok \/ c = <<>> \/ c[1] # ":" THEN ParseFail
             ELSE LET v == ParseValue(Tail(c))
                      e == SkipWs(v.rest)
                      \* a repeated key keeps its first position and takes the last value
                      acc2 == IF \E i \in 1..Len(acc) : acc[i][1] = k.val.v
                              THEN [i \in 1..Len(acc) |->
                                      IF acc[i][1] = k.val.v THEN <<k.val.v, v.val>> ELSE acc[i]]
                              ELSE Append(acc, <<k.val.v, v.val>>)
                  IN  IF ~v.ok \/ e = <<>> THEN ParseFail
                      ELSE IF e[1] = "}" THEN [ok |-> TRUE, val |-> JObj(acc2), rest |-> Tail(e)]
                      ELSE IF e[1] = "," THEN ParseMembers(SkipWs(Tail(e)), acc2)
                      ELSE ParseFail

\* JSON.parse: the value, or failure (the parser throws)
JSONParse(text) ==
    LET r == ParseValue(text)
    IN  IF r.ok /\ SkipWs(r.rest) = <<>> THEN r ELSE ParseFail

\* the HTTP client's response transform: a body that parses as JSON becomes the
\* parsed value, any other body stays the string it is
ResponseData(text) ==
    IF text # <<>> /\ JSONParse(text).ok THEN JSONParse(text).val ELSE JStr(text)

RECURSIVE JSONStringify(_)
RECURSIVE StringifyMembers(_)
JSONStringify(val) ==
    IF val.t = "str" THEN <<"\"">> \o val.v \o <<"\"">>
    ELSE IF val.t = "obj" THEN <<"{">> \o StringifyMembers(val.m) \o <<"}">>
    ELSE Undef

StringifyMembers(ms) ==
    IF Len(ms) = 0 THEN <<>>
    ELSE <<"\"">> \o ms[1][1] \o <<"\"", ":">> \o JSONStringify(ms[1][2])
         \o (IF Len(ms) = 1 THEN <<>> ELSE <<",">> \o StringifyMembers(Tail(ms)))

\* getValueByDotNotation of index.js: stops at any non-object
RECURSIVE WalkStrict(_, _)
WalkStrict(current, keys) ==
    IF keys = <<>> THEN current
    ELSE IF current.t # "obj" THEN JUndef
    ELSE WalkStrict(Prop(current, keys[1]), Tail(keys))

\* getValueByDotNotation of the refactored server: curr?.[key] at every step
RECURSIVE WalkOptional(_, _)
WalkOptional(current, keys) ==
    IF keys = <<>> THEN current
    ELSE WalkOptional(IF current.t = "obj" THEN Prop(current, keys[1])
                      ELSE IF current.t = "str" THEN StrProp(current, keys[1])
                      ELSE JUndef, Tail(keys))

getValueByDotNotation(impl_, obj, path) ==
    IF ~Truthy(path) THEN JUndef
    ELSE IF impl_ = "index" THEN WalkStrict(obj, Split(path, "."))
    ELSE WalkOptional(obj, Split(path, "."))

(***************************************************************************)
(* Responses.  kind is "next" (the handler declined: next()), "redirect"   *)
(* (res.redirect(location)) or "json" (res.status(status).json(...)).  An  *)
(* error body is kept by its parts: error names the message, details are   *)
(* the messages of the validation loop, valid the options the message      *)
(* lists, targetUrl the URL the body names; text is a body sent through    *)
(* res.json from upstream data.                                            *)
(***************************************************************************)
NoResp ==
    [kind |-> "none", status |-> 0, location |-> Undef, error |-> "",
     details |-> <<>>, valid |-> NoValues, targetUrl |-> Undef, text |-> Undef]

RespNext == [NoResp EXCEPT !.kind = "next"]

RespRedirect(loc) == [NoResp EXCEPT !.kind = "redirect", !.status = 302, !.location = loc]

RespError(status, error) == [NoResp EXCEPT !.kind = "json", !.status = status, !.error = error]

RespJson(status, data) ==
    [NoResp EXCEPT !.kind = "json", !.status = status, !.text = JSONStringify(data)]

\* one message pushed on errors by the validation loop
MsgInvalid(param) == [kind |-> "invalid", name |-> param.name, valid |-> param.validValues]
MsgMissing(param) == [kind |-> "missing", name |-> param.name, valid |-> NoValues]

(***************************************************************************)
(* The registry: currentConfig = { apiUrls: { key: entry }, baseTag }.     *)
(***************************************************************************)
NoSettings == [imageUrlField |-> Undef, fallbackAction |-> "none",
               imageUrlFieldFromParamDefault |-> Undef]

\* req.query[name]; the query string is the list of its <<name, value>> pairs
QueryGet(query, name) ==
    IF \E i \in 1..Len(query) : query[i][1] = name
    THEN query[CHOOSE i \in 1..Len(query) : query[i][1] = name][2]
    ELSE Undef

\* currentConfig.apiUrls[apiKey] is defined
HasEntry(cfg, apiKey) == apiKey \in DOMAIN cfg.apiUrls

S_config == <<"c","o","n","f","i","g">>
S_admin == <<"a","d","m","i","n">>
S_admin_login == <<"a","d","m","i","n","-","l","o","g","i","n">>
S_admin_logout == <<"a","d","m","i","n","-","l","o","g","o","u","t">>
S_api == <<"a","p","i">>
S_url == <<"u","r","l">>
S_field == <<"f","i","e","l","d">>
S_tags == <<"t","a","g","s">>
S_model == <<"m","o","d","e","l">>
S_flux == <<"f","l","u","x">>
S_turbo == <<"t","u","r","b","o">>

\* the keys the wildcard route leaves to other routes
\* the guard that lets only file-like keys pass
IsSystemRoute_DotOnly(impl_, apiKey) == Includes(apiKey, ".")

\* apiKey.includes('.') || apiKey === 'favicon.ico', and the system route names
IsSystemRoute(impl_, apiKey) ==
    \/ Includes(apiKey, ".")
    \/ apiKey \in {S_config, S_admin}
    \/ impl_ = "server" /\ apiKey \in {S_admin_login, S_admin_logout, S_api}

\* validatedParams[name] = value, on the insertion-ordered entry list
PutParam(pairs, name, value) ==
    IF \E i \in 1..Len(pairs) : pairs[i][1] = name
    THEN [i \in 1..Len(pairs) |-> IF pairs[i][1] = name THEN <<name, value>> ELSE pairs[i]]
    ELSE Append(pairs, <<name, value>>)

\* the validation loop with the default consulted before the required flag
RECURSIVE ValidateParams_DefaultFirst(_, _, _, _)
ValidateParams_DefaultFirst(schema, query, validated, errors) ==
    IF Len(schema) = 0 THEN [validatedParams |-> validated, errors |-> errors]
    ELSE LET paramConfig == schema[1]
             paramValue == QueryGet(query, paramConfig.name)
         IN  IF paramValue # Undef THEN
                 IF paramConfig.validValues # NoValues
                    /\ ~ArrIncludes(paramConfig.validValues, paramValue)
                 THEN ValidateParams_DefaultFirst(Tail(schema), query, validated,
                                     Append(errors, MsgInvalid(paramConfig)))
                 ELSE ValidateParams_DefaultFirst(Tail(schema), query,
                                     PutParam(validated, paramConfig.name, paramValue), errors)
             ELSE IF paramConfig.defaultValue # Undef THEN
                 ValidateParams_DefaultFirst(Tail(schema), query,
                                PutParam(validated, paramConfig.name, paramConfig.defaultValue),
                                errors)
             ELSE IF paramConfig.required THEN
                 ValidateParams_DefaultFirst(Tail(schema), query, validated,
                                Append(errors, MsgMissing(paramConfig)))
             ELSE ValidateParams_DefaultFirst(Tail(schema), query, validated, errors)

\* the validation loop without the membership test against validValues
RECURSIVE ValidateParams_AnyValue(_, _, _, _)
ValidateParams_AnyValue(schema, query, validated, errors) ==
    IF Len(schema) = 0 THEN [validatedParams |-> validated, errors |-> errors]
    ELSE LET paramConfig == schema[1]
             paramValue == QueryGet(query, paramConfig.name)
         IN  IF paramValue # Undef THEN
                 ValidateParams_AnyValue(Tail(schema), query,
                                     PutParam(validated, paramConfig.name, paramValue), errors)
             ELSE IF paramConfig.required THEN
                 ValidateParams_AnyValue(Tail(schema), query, validated,
                                Append(errors, MsgMissing(paramConfig)))
             ELSE IF paramConfig.defaultValue # Undef THEN
                 ValidateParams_AnyValue(Tail(schema), query,
                                PutParam(validated, paramConfig.name, paramConfig.defaultValue),
                                errors)
             ELSE ValidateParams_AnyValue(Tail(schema), query, validated, errors)

\* the validation loop with an absent parameter sent empty instead of left out
RECURSIVE ValidateParams_EmptyForAbsent(_, _, _, _)
ValidateParams_EmptyForAbsent(schema, query, validated, errors) ==
    IF Len(schema) = 0 THEN [validatedParams |-> validated, errors |-> errors]
    ELSE LET paramConfig == schema[1]
             paramValue == QueryGet(query, paramConfig.name)
         IN  IF paramValue # Undef THEN
                 IF paramConfig.validValues # NoValues
                    /\ ~ArrIncludes(paramConfig.validValues, paramValue)
                 THEN ValidateParams_EmptyForAbsent(Tail(schema), query, validated,
                                     Append(errors, MsgInvalid(paramConfig)))
                 ELSE ValidateParams_EmptyForAbsent(Tail(schema), query,
                                     PutParam(validated, paramConfig.name, paramValue), errors)
             ELSE IF paramConfig.required THEN
                 ValidateParams_EmptyForAbsent(Tail(schema), query, validated,
                                Append(errors, MsgMissing(paramConfig)))
             ELSE IF paramConfig.defaultValue # Undef THEN
                 ValidateParams_EmptyForAbsent(Tail(schema), query,
                                PutParam(validated, paramConfig.name, paramConfig.defaultValue),
                                errors)
             ELSE ValidateParams_EmptyForAbsent(Tail(schema), query,
                                PutParam(validated, paramConfig.name, <<>>), errors)

\* the validation loop over queryParamsConfig
RECURSIVE ValidateParams(_, _, _, _)
ValidateParams(schema, query, validated, errors) ==
    IF Len(schema) = 0 THEN [validatedParams |-> validated, errors |-> errors]
    ELSE LET paramConfig == schema[1]
             paramValue == QueryGet(query, paramConfig.name)
         IN  IF paramValue # Undef THEN
                 IF paramConfig.validValues # NoValues
                    /\ ~ArrIncludes(paramConfig.validValues, paramValue)
                 THEN ValidateParams(Tail(schema), query, validated,
                                     Append(errors, MsgInvalid(paramConfig)))
                 ELSE ValidateParams(Tail(schema), query,
                                     PutParam(validated, paramConfig.name, paramValue), errors)
             ELSE IF paramConfig.required THEN
                 ValidateParams(Tail(schema), query, validated,
                                Append(errors, MsgMissing(paramConfig)))
             ELSE IF paramConfig.defaultValue # Undef THEN
                 ValidateParams(Tail(schema), query,
                                PutParam(validated, paramConfig.name, paramConfig.defaultValue),
                                errors)
             ELSE ValidateParams(Tail(schema), query, validated, errors)

\* the parameters always concatenated behind a "?" (the existing query is not merged)
ConstructTargetUrl_Concat(url, validated) ==
    IF Len(validated) = 0 THEN url
    ELSE url \o <<"?">> \o FormSerialize(validated)

\* step 2 of the generic handler: the target URL from the base URL and validatedParams
ConstructTargetUrl(url, validated) ==
    IF Len(validated) = 0 THEN url
    ELSE IF URLParse(url).ok
         THEN URLToString(SearchParamsAppend(URLParse(url), validated))
    ELSE url \o (IF Includes(url, "?") THEN <<"&">> ELSE <<"?">>) \o FormSerialize(validated)

(***************************************************************************)
(* What the synchronous part of GET /:apiKey yields: a response, or the    *)
(* call of handleProxyRequest(targetUrl, proxySettings, res), which        *)
(* suspends in the outbound fetch.  settingsFrom says whether the settings *)
(* object passed is configEntry.proxySettings itself ("entry") or the      *)
(* fresh object dynamicProxySettings ("dynamic", kept in settings).        *)
(***************************************************************************)
Responded(resp) ==
    [resp |-> resp, proxy |-> FALSE, targetUrl |-> Undef,
     settingsFrom |-> "none", settings |-> NoSettings]

CallProxy(targetUrl, from, settings) ==
    [resp |-> NoResp, proxy |-> TRUE, targetUrl |-> targetUrl,
     settingsFrom |-> from, settings |-> settings]

\* the forward route that honours method redirect by redirecting to the endpoint's url
SpecialForward_MethodAware(configEntry, query) ==
    LET targetUrlParam == QueryGet(query, S_url)
        fieldParam == OrElse(QueryGet(query, S_field),
                             OrElse(configEntry.proxySettings.imageUrlFieldFromParamDefault, S_url))
    IN  IF ~Truthy(targetUrlParam) THEN Responded(RespError(400, "missing_url"))
        ELSE IF configEntry.method = "redirect" THEN Responded(RespRedirect(configEntry.url))
        ELSE CallProxy(targetUrlParam, "dynamic",
                       [configEntry.proxySettings EXCEPT !.imageUrlField = fieldParam])

SpecialForward(configEntry, query) ==
    LET targetUrlParam == QueryGet(query, S_url)
        fieldParam == OrElse(QueryGet(query, S_field),
                             OrElse(configEntry.proxySettings.imageUrlFieldFromParamDefault, S_url))
    IN  IF ~Truthy(targetUrlParam) THEN Responded(RespError(400, "missing_url"))
        ELSE CallProxy(targetUrlParam, "dynamic",
                       [configEntry.proxySettings EXCEPT !.imageUrlField = fieldParam])

\* tags and baseTag encoded together as one path segment
PollinationsUrl_EncodeAll(baseUrl, tags, baseTag, modelName) ==
    Interp(baseUrl) \o encodeURIComponent(tags \o <<",">> \o baseTag)
    \o <<"?","&","m","o","d","e","l","=">> \o Interp(modelName)
    \o <<"&","n","o","l","o","g","o","=","t","r","u","e">>

\* const promptUrl = `${baseUrl}${encodeURIComponent(tags)}%2c${baseTag}?&model=${modelName}&nologo=true`
PollinationsUrl(baseUrl, tags, baseTag, modelName) ==
    Interp(baseUrl) \o encodeURIComponent(tags) \o <<"%","2","c">> \o baseTag
    \o <<"?","&","m","o","d","e","l","=">> \o Interp(modelName)
    \o <<"&","n","o","l","o","g","o","=","t","r","u","e">>

SpecialPollinations(cfg, configEntry, query) ==
    LET tags == QueryGet(query, S_tags)
    IN  IF ~Truthy(tags) THEN Responded(RespError(400, "missing_tags"))
        ELSE Responded(RespRedirect(
                PollinationsUrl(configEntry.url, tags, OrElse(cfg.baseTag, <<>>),
                                configEntry.modelName)))

\* configEntry.queryParams?.find(p => p.name === 'model')
FindModelParam(schema) ==
    IF \E i \in 1..Len(schema) : schema[i].name = S_model
    THEN schema[CHOOSE i \in 1..Len(schema) :
                   /\ schema[i].name = S_model
                   /\ \A j \in 1..(i - 1) : schema[j].name # S_model]
    ELSE [name |-> S_model, required |-> FALSE, defaultValue |-> Undef, validValues |-> NoValues]

DrawRedirectPath(model, tags) ==
    <<"/">> \o model \o <<"?","t","a","g","s","=">> \o encodeURIComponent(tags)

\* src/index.js: the model is checked against the valid set
SpecialDrawRedirectIndex(configEntry, query) ==
    LET tags == QueryGet(query, S_tags)
        modelParamConfig == FindModelParam(configEntry.queryParams)
        model == OrElse(QueryGet(query, S_model), OrElse(modelParamConfig.defaultValue, S_flux))
        validModels == IF modelParamConfig.validValues # NoValues
                       THEN modelParamConfig.validValues ELSE <<S_flux, S_turbo>>
    IN  IF ~Truthy(tags) THEN Responded(RespError(400, "missing_tags"))
        ELSE IF ~ArrIncludes(validModels, model)
             THEN Responded([RespError(400, "invalid_model") EXCEPT !.valid = validModels])
        ELSE Responded(RespRedirect(DrawRedirectPath(model, tags)))

\* src/unnamed/part_000: the model is used as given
SpecialDrawRedirectServer(configEntry, query) ==
    LET tags == QueryGet(query, S_tags)
        model == OrElse(QueryGet(query, S_model),
                        OrElse(FindModelParam(configEntry.queryParams).defaultValue, S_flux))
    IN  IF ~Truthy(tags) THEN Responded(RespError(400, "missing_tags"))
        ELSE Responded(RespRedirect(DrawRedirectPath(model, tags)))

\* the handler forwarding the undeclared parameters of the query behind the validated ones
GenericHandler_ForwardAll(configEntry, query) ==
    LET v == ValidateParams(configEntry.queryParams, query, <<>>, <<>>)
        IsUndeclared(pair) == \A i \in 1..Len(configEntry.queryParams) :
                                  configEntry.queryParams[i].name # pair[1]
    IN  IF Len(v.errors) > 0
        THEN Responded([RespError(400, "invalid_params") EXCEPT !.details = v.errors])
        ELSE IF ~Truthy(configEntry.url)
             THEN Responded(RespError(500, "config_url_missing"))
        ELSE LET targetUrl == ConstructTargetUrl(configEntry.url,
                                  v.validatedParams \o SelectSeq(query, IsUndeclared))
             IN  IF configEntry.method = "proxy"
                 THEN CallProxy(targetUrl, "entry", configEntry.proxySettings)
                 ELSE Responded(RespRedirect(targetUrl))

\* the handler answering a route without url as a client error
GenericHandler_UrlIs400(configEntry, query) ==
    LET v == ValidateParams(configEntry.queryParams, query, <<>>, <<>>)
    IN  IF Len(v.errors) > 0
        THEN Responded([RespError(400, "invalid_params") EXCEPT !.details = v.errors])
        ELSE IF ~Truthy(configEntry.url)
             THEN Responded(RespError(400, "config_url_missing"))
        ELSE LET targetUrl == ConstructTargetUrl(configEntry.url, v.validatedParams)
             IN  IF configEntry.method = "proxy"
                 THEN CallProxy(targetUrl, "entry", configEntry.proxySettings)
                 ELSE Responded(RespRedirect(targetUrl))

GenericHandler(configEntry, query) ==
    LET v == ValidateParams(configEntry.queryParams, query, <<>>, <<>>)
    IN  IF Len(v.errors) > 0
        THEN Responded([RespError(400, "invalid_params") EXCEPT !.details = v.errors])
        ELSE IF ~Truthy(configEntry.url)
             THEN Responded(RespError(500, "config_url_missing"))
        ELSE LET targetUrl == ConstructTargetUrl(configEntry.url, v.validatedParams)
             IN  IF configEntry.method = "proxy"
                 THEN CallProxy(targetUrl, "entry", configEntry.proxySettings)
                 ELSE Responded(RespRedirect(targetUrl))

\* the lookup accepting an entry that has no method
HandleApiKey_NoMethodCheck(impl_, cfg, apiKey, query) ==
    IF IsSystemRoute(impl_, apiKey) THEN Responded(RespNext)
    ELSE IF ~HasEntry(cfg, apiKey) THEN Responded(RespNext)
    ELSE LET configEntry == cfg.apiUrls[apiKey]
         IN  IF configEntry.urlConstruction = "special_forward"
                 THEN SpecialForward(configEntry, query)
             ELSE IF configEntry.urlConstruction = "special_pollinations"
                 THEN SpecialPollinations(cfg, configEntry, query)
             ELSE IF configEntry.urlConstruction = "special_draw_redirect"
                 THEN IF impl_ = "index" THEN SpecialDrawRedirectIndex(configEntry, query)
                      ELSE SpecialDrawRedirectServer(configEntry, query)
             ELSE GenericHandler(configEntry, query)

\* the handler validating the query against the schema before the special branches
HandleApiKey_ValidateFirst(impl_, cfg, apiKey, query) ==
    IF IsSystemRoute(impl_, apiKey) THEN Responded(RespNext)
    ELSE IF ~HasEntry(cfg, apiKey) \/ cfg.apiUrls[apiKey].method = "none"
         THEN Responded(RespNext)
    ELSE LET configEntry == cfg.apiUrls[apiKey]
             v == ValidateParams(configEntry.queryParams, query, <<>>, <<>>)
         IN  IF Len(v.errors) > 0
                 THEN Responded([RespError(400, "invalid_params") EXCEPT !.details = v.errors])
             ELSE IF configEntry.urlConstruction = "special_forward"
                 THEN SpecialForward(configEntry, query)
             ELSE IF configEntry.urlConstruction = "special_pollinations"
                 THEN SpecialPollinations(cfg, configEntry, query)
             ELSE IF configEntry.urlConstruction = "special_draw_redirect"
                 THEN IF impl_ = "index" THEN SpecialDrawRedirectIndex(configEntry, query)
                      ELSE SpecialDrawRedirectServer(configEntry, query)
             ELSE GenericHandler(configEntry, query)

\* app.get('/:apiKey'), up to its response or its call of handleProxyRequest
HandleApiKey(impl_, cfg, apiKey, query) ==
    IF IsSystemRoute(impl_, apiKey) THEN Responded(RespNext)
    ELSE IF ~HasEntry(cfg, apiKey) \/ cfg.apiUrls[apiKey].method = "none"
         THEN Responded(RespNext)
    ELSE LET configEntry == cfg.apiUrls[apiKey]
         IN  IF configEntry.urlConstruction = "special_forward"
                 THEN SpecialForward(configEntry, query)
             ELSE IF configEntry.urlConstruction = "special_pollinations"
                 THEN SpecialPollinations(cfg, configEntry, query)
             ELSE IF configEntry.urlConstruction = "special_draw_redirect"
                 THEN IF impl_ = "index" THEN SpecialDrawRedirectIndex(configEntry, query)
                      ELSE SpecialDrawRedirectServer(configEntry, query)
             ELSE GenericHandler(configEntry, query)

(***************************************************************************)
(* handleProxyRequest after the outbound GET.  An upstream result is       *)
(* [kind, status, text]: kind "response" (status and body text received),  *)
(* "noresponse" (network failure or the 15 s timeout: error.request set,   *)
(* no error.response) or "setup" (the request could not be built).         *)
(***************************************************************************)
\* validateStatus: (status) => status >= 200 && status < 500
ValidateStatus(status) == status >= 200 /\ status < 500

\* res.status(status).json(data || { error: ... })
PassThrough(status, data) ==
    IF data = JStr(<<>>) THEN RespError(status, "target_error") ELSE RespJson(status, data)

ExtractImageUrl(impl_, settings, data) ==
    LET fieldToUse == settings.imageUrlField
        usable == IF impl_ = "index"
                  THEN Truthy(fieldToUse) /\ data # JStr(<<>>) /\ data.t = "obj"
                  ELSE Truthy(fieldToUse) /\ data # JStr(<<>>)
        imageUrl == IF usable THEN getValueByDotNotation(impl_, data, fieldToUse) ELSE JUndef
    IN  IF imageUrl.t = "str" /\ MatchesImageExt(imageUrl.v) THEN imageUrl.v ELSE Undef

\* the 404 of fallbackAction 'error': index.js names the target URL, the server does not
ExtractFailed(impl_, targetUrl) ==
    IF impl_ = "index" THEN [RespError(404, "extract_failed") EXCEPT !.targetUrl = targetUrl]
    ELSE RespError(404, "extract_failed")

\* the 504 of the catch block
GatewayTimeout(impl_, targetUrl) ==
    IF impl_ = "index" THEN [RespError(504, "timeout") EXCEPT !.targetUrl = targetUrl]
    ELSE RespError(504, "timeout")

\* handleProxyRequest with an unset fallbackAction treated as 'error'
ProxyRespond_UnsetIsError(impl_, targetUrl, settings, upstream) ==
    IF upstream.kind = "noresponse" THEN GatewayTimeout(impl_, targetUrl)
    ELSE IF upstream.kind = "setup" THEN RespError(500, "setup_failed")
    ELSE LET data == ResponseData(upstream.text)
         IN  IF ~ValidateStatus(upstream.status) THEN PassThrough(upstream.status, data)
             ELSE IF upstream.status >= 400 THEN PassThrough(upstream.status, data)
             ELSE LET imageUrl == ExtractImageUrl(impl_, settings, data)
                  IN  IF imageUrl # Undef THEN RespRedirect(imageUrl)
                      ELSE IF settings.fallbackAction # "returnJson"
                           THEN ExtractFailed(impl_, targetUrl)
                      ELSE RespJson(200, data)

\* the catch block answering nothing when the failure has neither response nor request
ProxyRespond_SetupSilent(impl_, targetUrl, settings, upstream) ==
    IF upstream.kind = "noresponse" THEN GatewayTimeout(impl_, targetUrl)
    ELSE IF upstream.kind = "setup" THEN NoResp
    ELSE LET data == ResponseData(upstream.text)
         IN  IF ~ValidateStatus(upstream.status) THEN PassThrough(upstream.status, data)
             ELSE IF upstream.status >= 400 THEN PassThrough(upstream.status, data)
             ELSE LET imageUrl == ExtractImageUrl(impl_, settings, data)
                  IN  IF imageUrl # Undef THEN RespRedirect(imageUrl)
                      ELSE IF settings.fallbackAction = "error"
                           THEN ExtractFailed(impl_, targetUrl)
                      ELSE RespJson(200, data)

\* the catch block answering a failure without request as a gateway timeout
ProxyRespond_SetupIsTimeout(impl_, targetUrl, settings, upstream) ==
    IF upstream.kind \in {"noresponse", "setup"} THEN GatewayTimeout(impl_, targetUrl)
    ELSE LET data == ResponseData(upstream.text)
         IN  IF ~ValidateStatus(upstream.status) THEN PassThrough(upstream.status, data)
             ELSE IF upstream.status >= 400 THEN PassThrough(upstream.status, data)
             ELSE LET imageUrl == ExtractImageUrl(impl_, settings, data)
                  IN  IF imageUrl # Undef THEN RespRedirect(imageUrl)
                      ELSE IF settings.fallbackAction = "error"
                           THEN ExtractFailed(impl_, targetUrl)
                      ELSE RespJson(200, data)

\* handleProxyRequest looking for the image URL in a 4xx body as well
ProxyRespond_ExtractFirst(impl_, targetUrl, settings, upstream) ==
    IF upstream.kind = "noresponse" THEN GatewayTimeout(impl_, targetUrl)
    ELSE IF upstream.kind = "setup" THEN RespError(500, "setup_failed")
    ELSE LET data == ResponseData(upstream.text)
         IN  IF ~ValidateStatus(upstream.status) THEN PassThrough(upstream.status, data)
             ELSE LET imageUrl == ExtractImageUrl(impl_, settings, data)
                  IN  IF imageUrl # Undef THEN RespRedirect(imageUrl)
                      ELSE IF upstream.status >= 400 THEN PassThrough(upstream.status, data)
                      ELSE IF settings.fallbackAction = "error"
                           THEN ExtractFailed(impl_, targetUrl)
                      ELSE RespJson(200, data)

ProxyRespond(impl_, targetUrl, settings, upstream) ==
    IF upstream.kind = "noresponse" THEN GatewayTimeout(impl_, targetUrl)
    ELSE IF upstream.kind = "setup" THEN RespError(500, "setup_failed")
    ELSE LET data == ResponseData(upstream.text)
         IN  IF ~ValidateStatus(upstream.status) THEN PassThrough(upstream.status, data)
             ELSE IF upstream.status >= 400 THEN PassThrough(upstream.status, data)
             ELSE LET imageUrl == ExtractImageUrl(impl_, settings, data)
                  IN  IF imageUrl # Undef THEN RespRedirect(imageUrl)
                      ELSE IF settings.fallbackAction = "error"
                           THEN ExtractFailed(impl_, targetUrl)
                      ELSE RespJson(200, data)

(***************************************************************************)
(* The strings the inputs are drawn from.                                  *)
(***************************************************************************)
U_x_slash == <<"h","t","t","p","s",":","/","/","x","/">>
U_x == <<"h","t","t","p","s",":","/","/","x">>
U_x_query == <<"h","t","t","p","s",":","/","/","x","/","p","?","r","=","1">>
U_rel == <<"x","/","p">>
U_rel_query == <<"x","?","r","=","1">>
U_y == <<"h","t","t","p","s",":","/","/","y","/">>
U_target == <<"h","t","t","p","s",":","/","/","u","/">>
V_a == <<"a">>
V_b == <<"b">>
V_c == <<"c">>
V_space == <<"a"," ","b">>
V_d == <<"d">>
V_z == <<"z">>
V_cat == <<"c","a","t">>
V_art == <<"a","r","t">>
V_tags == <<"a",",","b"," ","c">>
V_bogus == <<"b","o","g","u","s">>
V_sd == <<"s","d">>
F_data_url == <<"d","a","t","a",".","u","r","l">>
K_k == <<"k">>
K_p == <<"p">>
K_missing == <<"n","o","k","e","y">>
K_dotted == <<"k",".","x">>
B_png == <<"{","\"","d","a","t","a","\"",":","{","\"","u","r","l","\"",":","\"","h","t","t","p","s",":","/","/","i","m","g","/","x",".","p","n","g","\"","}","}">>
B_noext == <<"{","\"","d","a","t","a","\"",":","{","\"","u","r","l","\"",":","\"","h","t","t","p","s",":","/","/","i","m","g","/","x","\"","}","}">>
B_upper == <<"{","\"","u","r","l","\"",":"," ","\"","h","t","t","p","s",":","/","/","i","m","g","/","x",".","P","N","G","?","y","\"","}">>
B_nested_str == <<"{","\"","d","a","t","a","\"",":","\"","x",".","p","n","g","\"","}">>
B_text == <<"x",".","p","n","g">>
B_quoted == <<"\"","x",".","p","n","g","\"">>
B_error == <<"{","\"","e","r","r","o","r","\"",":","\"","n","f","\"","}">>
L_png == <<"h","t","t","p","s",":","/","/","i","m","g","/","x",".","p","n","g">>
L_example == <<"h","t","t","p","s",":","/","/","x","/","c","a","t","%","2","c","a","r","t","?","&","m","o","d","e","l","=","f","l","u","x","&","n","o","l","o","g","o","=","t","r","u","e">>

(***************************************************************************)
(* Persistence of POST /config: the normalized tables, the legacy JSON row *)
(* and the config.json backup.                                             *)
(***************************************************************************)
\* one api_endpoints row with its query_params rows, as upsertEndpoint / insertParam bind them
EndpointRow(config) ==
    [url |-> OrElse(config.url, <<>>),
     method |-> IF config.method = "none" THEN "redirect" ELSE config.method,
     url_construction |-> config.urlConstruction,
     model_name |-> OrElse(config.modelName, Undef),
     proxy_image_url_field |-> OrElse(config.proxySettings.imageUrlField, Undef),
     proxy_fallback_action |-> IF config.proxySettings.fallbackAction = "none"
                               THEN "returnJson" ELSE config.proxySettings.fallbackAction,
     params |-> [i \in 1..Len(config.queryParams) |->
                   [name |-> config.queryParams[i].name,
                    required |-> config.queryParams[i].required,
                    default_value |-> OrElse(config.queryParams[i].defaultValue, Undef),
                    valid_values |-> config.queryParams[i].validValues]]]

\* what saveToNormalizedTables leaves in global_settings, api_endpoints and query_params
ToTables(newConfig) ==
    [base_tag |-> OrElse(newConfig.baseTag, <<>>),
     endpoints |-> [k \in DOMAIN newConfig.apiUrls |-> EndpointRow(newConfig.apiUrls[k])]]

EmptyConfig == [apiUrls |-> [k \in {} |-> 0], baseTag |-> <<>>]

\* the endpoint definition loadConfig builds from one api_endpoints row and its
\* query_params rows; no column holds imageUrlFieldFromParamDefault
FromRow(endpoint) ==
    [url |-> OrElse(endpoint.url, <<>>),
     method |-> endpoint.method,
     urlConstruction |-> endpoint.url_construction,
     modelName |-> OrElse(endpoint.model_name, Undef),
     queryParams |-> [i \in 1..Len(endpoint.params) |->
                        [name |-> endpoint.params[i].name,
                         required |-> endpoint.params[i].required,
                         defaultValue |-> OrElse(endpoint.params[i].default_value, Undef),
                         validValues |-> endpoint.params[i].valid_values]],
     proxySettings |-> [imageUrlField |-> OrElse(endpoint.proxy_image_url_field, Undef),
                        fallbackAction |-> endpoint.proxy_fallback_action,
                        imageUrlFieldFromParamDefault |-> Undef]]

\* the registry loadConfig builds from the normalized tables
FromTables(tables) ==
    [apiUrls |-> [k \in DOMAIN tables.endpoints |-> FromRow(tables.endpoints[k])],
     baseTag |-> OrElse(tables.base_tag, <<>>)]

\* loadConfig: the tables when api_endpoints has a row; else (index.js) the legacy row
\* when it has data; else config.json
LoadConfig(impl_, db_, file_) ==
    IF DOMAIN db_.tables.endpoints # {} THEN FromTables(db_.tables)
    ELSE IF impl_ = "index" /\ db_.legacy # EmptyConfig THEN db_.legacy
    ELSE file_

(***************************************************************************)
(* State.                                                                  *)
(*   impl                 which server file runs: "index" (src/index.js)   *)
(*                        or "server" (src/unnamed/part_000)               *)
(*   enableFileOperations the ENABLE_FILE_OPERATIONS switch                *)
(*   currentConfig        the in-memory registry                           *)
(*   db                   [tables, legacy]: the normalized tables and the  *)
(*                        legacy config row                                *)
(*   file                 the content of config.json                       *)
(*   reqs                 the GET /:apiKey requests: pc is "idle" (not     *)
(*                        yet received), "fetching" (suspended in the      *)
(*                        await of handleProxyRequest) or "done"; snap is  *)
(*                        the registry the lookup read, fetches counts the *)
(*                        outbound GETs, upstream is the result received   *)
(*   admin                the last /config exchange; posted is the snapshot *)
(*                        of the last POST /config that was accepted       *)
(***************************************************************************)
VARIABLES impl, enableFileOperations, currentConfig, db, file, reqs, admin

vars == <<impl, enableFileOperations, currentConfig, db, file, reqs, admin>>

MaxReqs == 2

ReqIds == 1..MaxReqs

NoUpstream == [kind |-> "none", status |-> 0, text |-> <<>>]

IdleReq ==
    [pc |-> "idle", apiKey |-> <<>>, query |-> <<>>, snap |-> EmptyConfig,
     targetUrl |-> Undef, settingsFrom |-> "none", settings |-> NoSettings,
     upstream |-> NoUpstream, fetches |-> 0, resp |-> NoResp]

\* the settings looked up again in the registry after the await
SettingsInUse_Current(req) ==
    IF HasEntry(currentConfig, req.apiKey) /\ req.settingsFrom = "entry"
    THEN currentConfig.apiUrls[req.apiKey].proxySettings
    ELSE req.settings

\* the proxySettings parameter handleProxyRequest reads after the await: the object it
\* was called with
SettingsInUse(req) == req.settings

\* the lookup reading config.json instead of the in-memory registry
Dispatch_FromFile(r, apiKey, query) ==
    /\ reqs[r].pc = "idle"
    /\ LET h == HandleApiKey(impl, file, apiKey, query)
       IN  reqs' = [reqs EXCEPT ![r] =
                      [pc |-> IF h.proxy THEN "fetching" ELSE "done",
                       apiKey |-> apiKey, query |-> query, snap |-> file,
                       targetUrl |-> h.targetUrl, settingsFrom |-> h.settingsFrom,
                       settings |-> h.settings, upstream |-> NoUpstream,
                       fetches |-> IF h.proxy THEN 1 ELSE 0, resp |-> h.resp]]
    /\ UNCHANGED <<impl, enableFileOperations, currentConfig, db, file, admin>>

\* the special_forward branch writing the caller's field into the registry entry
Dispatch_WritesField(r, apiKey, query) ==
    /\ reqs[r].pc = "idle"
    /\ LET h == HandleApiKey(impl, currentConfig, apiKey, query)
       IN  /\ reqs' = [reqs EXCEPT ![r] =
                         [pc |-> IF h.proxy THEN "fetching" ELSE "done",
                          apiKey |-> apiKey, query |-> query, snap |-> currentConfig,
                          targetUrl |-> h.targetUrl, settingsFrom |-> h.settingsFrom,
                          settings |-> h.settings, upstream |-> NoUpstream,
                          fetches |-> IF h.proxy THEN 1 ELSE 0, resp |-> h.resp]]
           /\ currentConfig' = IF h.settingsFrom = "dynamic"
                               THEN [currentConfig EXCEPT
                                        !.apiUrls[apiKey].proxySettings = h.settings]
                               ELSE currentConfig
    /\ UNCHANGED <<impl, enableFileOperations, db, file, admin>>

\* GET /:apiKey arrives and runs to its response or to the await of the outbound GET
Dispatch(r, apiKey, query) ==
    /\ reqs[r].pc = "idle"
    /\ LET h == HandleApiKey(impl, currentConfig, apiKey, query)
       IN  reqs' = [reqs EXCEPT ![r] =
                      [pc |-> IF h.proxy THEN "fetching" ELSE "done",
                       apiKey |-> apiKey, query |-> query, snap |-> currentConfig,
                       targetUrl |-> h.targetUrl, settingsFrom |-> h.settingsFrom,
                       settings |-> h.settings, upstream |-> NoUpstream,
                       fetches |-> IF h.proxy THEN 1 ELSE 0, resp |-> h.resp]]
    /\ UNCHANGED <<impl, enableFileOperations, currentConfig, db, file, admin>>

\* the continuation answering from the registry entry current at that moment
FetchReturn_LiveRegistry(r, upstream) ==
    /\ reqs[r].pc = "fetching"
    /\ reqs' = [reqs EXCEPT ![r] =
                  [@ EXCEPT !.pc = "done", !.upstream = upstream,
                            !.resp = ProxyRespond(impl, reqs[r].targetUrl,
                                        IF HasEntry(currentConfig, reqs[r].apiKey)
                                        THEN currentConfig.apiUrls[reqs[r].apiKey].proxySettings
                                        ELSE reqs[r].settings, upstream)]]
    /\ UNCHANGED <<impl, enableFileOperations, currentConfig, db, file, admin>>

\* the continuation that fetches once more after a fetch without response
FetchReturn_Retry(r, upstream) ==
    /\ reqs[r].pc = "fetching"
    /\ reqs' = [reqs EXCEPT ![r] =
                  IF upstream.kind = "noresponse" /\ reqs[r].fetches < 2
                  THEN [@ EXCEPT !.fetches = @ + 1]
                  ELSE [@ EXCEPT !.pc = "done", !.upstream = upstream,
                                 !.resp = ProxyRespond(impl, reqs[r].targetUrl,
                                                       SettingsInUse(reqs[r]), upstream)]]
    /\ UNCHANGED <<impl, enableFileOperations, currentConfig, db, file, admin>>

\* the continuation reading fallbackAction from the registry entry current at that moment
FetchReturn_LiveFallback(r, upstream) ==
    /\ reqs[r].pc = "fetching"
    /\ reqs' = [reqs EXCEPT ![r] =
                  [@ EXCEPT !.pc = "done", !.upstream = upstream,
                            !.resp = ProxyRespond(impl, reqs[r].targetUrl,
                                        IF HasEntry(currentConfig, reqs[r].apiKey)
                                        THEN [reqs[r].settings EXCEPT !.fallbackAction =
                                                 currentConfig.apiUrls[reqs[r].apiKey]
                                                     .proxySettings.fallbackAction]
                                        ELSE reqs[r].settings, upstream)]]
    /\ UNCHANGED <<impl, enableFileOperations, currentConfig, db, file, admin>>

\* the continuation of a fetch without timeout: while no response arrives it keeps waiting
FetchReturn_WaitOn(r, upstream) ==
    /\ reqs[r].pc = "fetching"
    /\ reqs' = [reqs EXCEPT ![r] =
                  IF upstream.kind = "noresponse"
                  THEN [@ EXCEPT !.upstream = IF @ = NoUpstream THEN upstream ELSE NoUpstream]
                  ELSE [@ EXCEPT !.pc = "done", !.upstream = upstream,
                                 !.resp = ProxyRespond(impl, reqs[r].targetUrl,
                                                       SettingsInUse(reqs[r]), upstream)]]
    /\ UNCHANGED <<impl, enableFileOperations, currentConfig, db, file, admin>>

\* the outbound GET of a suspended request settles and handleProxyRequest answers
FetchReturn(r, upstream) ==
    /\ reqs[r].pc = "fetching"
    /\ reqs' = [reqs EXCEPT ![r] =
                  [@ EXCEPT !.pc = "done", !.upstream = upstream,
                            !.resp = ProxyRespond(impl, reqs[r].targetUrl,
                                                  SettingsInUse(reqs[r]), upstream)]]
    /\ UNCHANGED <<impl, enableFileOperations, currentConfig, db, file, admin>>

NoAdmin == [route |-> "none", status |-> 0, body |-> EmptyConfig, posted |-> EmptyConfig]

\* the status POST /config answers with once the registry is replaced
PostStatus(impl_, fileOps, dbOk, fileOk) ==
    IF impl_ = "server" THEN (IF dbOk THEN 200 ELSE 500)
    ELSE IF fileOps THEN (IF dbOk \/ fileOk THEN 200 ELSE 500)
    ELSE (IF dbOk THEN 200 ELSE 500)

\* POST /config installing the snapshot only once it is persisted
ConfigPost_PersistFirst(cookieOk, hasApiUrls, newConfig, dbOk, fileOk) ==
    /\ IF ~cookieOk THEN
           /\ admin' = [route |-> "post", status |-> 401, body |-> EmptyConfig,
                        posted |-> admin.posted]
           /\ UNCHANGED <<currentConfig, db, file>>
       ELSE IF ~hasApiUrls THEN
           /\ admin' = [route |-> "post", status |-> 400, body |-> EmptyConfig,
                        posted |-> admin.posted]
           /\ UNCHANGED <<currentConfig, db, file>>
       ELSE
           /\ currentConfig' = IF PostStatus(impl, enableFileOperations, dbOk, fileOk) = 200
                               THEN newConfig ELSE currentConfig
           /\ db' = IF dbOk
                    THEN [tables |-> ToTables(newConfig),
                          legacy |-> IF impl = "index" THEN newConfig ELSE db.legacy]
                    ELSE db
           /\ file' = IF enableFileOperations /\ fileOk /\ (impl = "index" \/ dbOk)
                      THEN newConfig ELSE file
           /\ admin' = [route |-> "post",
                        status |-> PostStatus(impl, enableFileOperations, dbOk, fileOk),
                        body |-> EmptyConfig, posted |-> newConfig]
    /\ UNCHANGED <<impl, enableFileOperations, reqs>>

\* POST /config replacing the registry ahead of the cookie and format checks
ConfigPost_InstallThenCheck(cookieOk, hasApiUrls, newConfig, dbOk, fileOk) ==
    /\ currentConfig' = newConfig
    /\ IF ~cookieOk THEN
           /\ admin' = [route |-> "post", status |-> 401, body |-> EmptyConfig,
                        posted |-> admin.posted]
           /\ UNCHANGED <<db, file>>
       ELSE IF ~hasApiUrls THEN
           /\ admin' = [route |-> "post", status |-> 400, body |-> EmptyConfig,
                        posted |-> admin.posted]
           /\ UNCHANGED <<db, file>>
       ELSE
           /\ db' = IF dbOk
                    THEN [tables |-> ToTables(newConfig),
                          legacy |-> IF impl = "index" THEN newConfig ELSE db.legacy]
                    ELSE db
           /\ file' = IF enableFileOperations /\ fileOk /\ (impl = "index" \/ dbOk)
                      THEN newConfig ELSE file
           /\ admin' = [route |-> "post",
                        status |-> PostStatus(impl, enableFileOperations, dbOk, fileOk),
                        body |-> EmptyConfig, posted |-> newConfig]
    /\ UNCHANGED <<impl, enableFileOperations, reqs>>

\* POST /config behind checkAdminAuth.  cookieOk: the admin cookie equals the token;
\* hasApiUrls: the body is an object with apiUrls; dbOk, fileOk: the transaction and
\* the file write succeed.
ConfigPost(cookieOk, hasApiUrls, newConfig, dbOk, fileOk) ==
    /\ IF ~cookieOk THEN
           /\ admin' = [route |-> "post", status |-> 401, body |-> EmptyConfig,
                        posted |-> admin.posted]
           /\ UNCHANGED <<currentConfig, db, file>>
       ELSE IF ~hasApiUrls THEN
           /\ admin' = [route |-> "post", status |-> 400, body |-> EmptyConfig,
                        posted |-> admin.posted]
           /\ UNCHANGED <<currentConfig, db, file>>
       ELSE
           /\ currentConfig' = newConfig
           /\ db' = IF dbOk
                    THEN [tables |-> ToTables(newConfig),
                          legacy |-> IF impl = "index" THEN newConfig ELSE db.legacy]
                    ELSE db
           /\ file' = IF enableFileOperations /\ fileOk /\ (impl = "index" \/ dbOk)
                      THEN newConfig ELSE file
           /\ admin' = [route |-> "post",
                        status |-> PostStatus(impl, enableFileOperations, dbOk, fileOk),
                        body |-> EmptyConfig, posted |-> newConfig]
    /\ UNCHANGED <<impl, enableFileOperations, reqs>>

\* GET /config behind checkAdminAuth
ConfigGet(cookieOk) ==
    /\ admin' = IF cookieOk
                THEN [admin EXCEPT !.route = "get", !.status = 200, !.body = currentConfig]
                ELSE [admin EXCEPT !.route = "get", !.status = 401, !.body = EmptyConfig]
    /\ UNCHANGED <<impl, enableFileOperations, currentConfig, db, file, reqs>>

\* the process starts again: loadConfig rebuilds the registry from the store and, with
\* file operations enabled, writes it back to config.json (index.js: only when it came
\* from the tables); the requests of the old process are gone.  fileOk: the write succeeds.
Restart(fileOk) ==
    /\ currentConfig' = LoadConfig(impl, db, file)
    /\ file' = IF /\ enableFileOperations /\ fileOk
                  /\ (impl = "server" \/ DOMAIN db.tables.endpoints # {})
               THEN LoadConfig(impl, db, file) ELSE file
    /\ reqs' = [r \in ReqIds |-> IdleReq]
    /\ admin' = [admin EXCEPT !.route = "load"]
    /\ UNCHANGED <<impl, enableFileOperations, db>>

(***************************************************************************)
(* Inputs.                                                                 *)
(***************************************************************************)
Impls == {"index", "server"}

N_a == <<"a">>
N_b == <<"b">>
N_z == <<"z">>

Entry(url, method, urlConstruction, modelName, queryParams, proxySettings) ==
    [url |-> url, method |-> method, urlConstruction |-> urlConstruction,
     modelName |-> modelName, queryParams |-> queryParams, proxySettings |-> proxySettings]

Param(name, required, defaultValue, validValues) ==
    [name |-> name, required |-> required, defaultValue |-> defaultValue,
     validValues |-> validValues]

Settings(imageUrlField, fallbackAction, fromParamDefault) ==
    [imageUrlField |-> imageUrlField, fallbackAction |-> fallbackAction,
     imageUrlFieldFromParamDefault |-> fromParamDefault]

ParamsA == {Param(N_a, r, d, vv) : r \in BOOLEAN, d \in {Undef, V_d, <<>>},
                                   vv \in {NoValues, <<V_a, V_b>>}}
ParamsB == {Param(N_b, r, d, NoValues) : r \in BOOLEAN, d \in {Undef, V_d}}

\* parameter schemas: the names of one schema are distinct
Schemas == {<<>>} \cup {<<a>> : a \in ParamsA} \cup {<<a, b>> : a \in ParamsA, b \in ParamsB}

BaseUrls == {U_x_slash, U_x, U_x_query, U_rel, U_rel_query, <<>>, Undef}

SettingsChoices == {Settings(f, fb, Undef) : f \in {Undef, F_data_url, S_url},
                                             fb \in {"none", "returnJson", "error"}}

RedirectEntries == {Entry(u, "redirect", "none", Undef, s, NoSettings) :
                       u \in BaseUrls, s \in Schemas}

ProxyEntries == {Entry(u, "proxy", "none", Undef, s, ps) :
                    u \in {U_x_slash, U_rel, Undef},
                    s \in {<<Param(N_a, FALSE, V_d, NoValues)>>},
                    ps \in SettingsChoices}

\* schemas of special endpoints: none, and one whose rules a generic validation would apply
StrictSchemas == {<<>>, <<Param(N_a, TRUE, V_d, <<V_b>>)>>}

ForwardEntries == {Entry(U_x_slash, m, "special_forward", Undef, s, Settings(Undef, fb, d)) :
                      m \in {"redirect", "proxy"}, fb \in {"none", "returnJson", "error"},
                      d \in {Undef, F_data_url}, s \in StrictSchemas}

PollinationsEntries == {Entry(u, m, "special_pollinations", mn, s, NoSettings) :
                           u \in {U_x_slash, Undef}, m \in {"redirect", "proxy"},
                           mn \in {S_flux, Undef}, s \in StrictSchemas}

ModelSchemas == {<<>>,
                 <<Param(S_model, FALSE, S_turbo, NoValues)>>,
                 <<Param(S_model, FALSE, Undef, <<S_flux, V_sd>>)>>,
                 <<Param(S_model, TRUE, V_sd, NoValues)>>,
                 <<Param(S_model, FALSE, Undef, <<V_sd>>)>>,
                 <<Param(N_a, FALSE, Undef, NoValues), Param(S_model, FALSE, V_sd, <<V_sd>>)>>}

DrawEntries == {Entry(U_x_slash, m, "special_draw_redirect", Undef, s, NoSettings) :
                   m \in {"redirect", "proxy"}, s \in ModelSchemas}

NoMethodEntries == {Entry(U_x_slash, "none", uc, Undef, <<>>, NoSettings) :
                       uc \in {"none", "special_pollinations"}}

BaseTags == {V_art, <<>>, Undef, V_space}

Config(apiUrls, baseTag) == [apiUrls |-> apiUrls, baseTag |-> baseTag]

DispatchConfigs ==
    {Config(K_k :> e, V_art) :
        e \in RedirectEntries \cup ProxyEntries \cup ForwardEntries \cup DrawEntries
              \cup NoMethodEntries}
    \cup {Config(K_k :> e, t) : e \in PollinationsEntries, t \in BaseTags}
    \cup {Config((S_config :> e) @@ (K_dotted :> e) @@ (S_api :> e) @@ (S_admin :> e)
                  @@ (S_admin_login :> e), V_art) :
             e \in {Entry(U_x_slash, "redirect", "none", Undef, <<>>, NoSettings)}}

Pair(name, values) == {<<>>} \cup {<< <<name, v>> >> : v \in values}

GenericQueries == {a \o b \o z : a \in Pair(N_a, {V_a, V_c, V_space}),
                                 b \in Pair(N_b, {V_b}), z \in Pair(N_z, {V_z})}
TagQueries == {t \o m : t \in Pair(S_tags, {<<>>, V_cat, V_tags}),
                        m \in Pair(S_model, {S_flux, S_turbo, V_bogus, V_sd})}
ForwardQueries == {u \o f : u \in Pair(S_url, {<<>>, U_target}),
                            f \in Pair(S_field, {S_url, F_data_url})}

\* the queries tried on an endpoint: those its construction reads, and one it does not
QueriesFor(entry) ==
    IF entry.urlConstruction = "special_forward"
        THEN ForwardQueries \cup {<< <<N_a, V_a>> >>}
    ELSE IF entry.urlConstruction \in {"special_pollinations", "special_draw_redirect"}
        THEN TagQueries
    ELSE GenericQueries \cup {<< <<S_tags, V_cat>> >>}

Requests(cfg) ==
    (IF K_k \in DOMAIN cfg.apiUrls
     THEN {<<K_k, q>> : q \in QueriesFor(cfg.apiUrls[K_k])} ELSE {})
    \cup {<<k, <<>>>> : k \in {K_missing, K_dotted, S_config, S_api, S_admin, S_admin_login}}

Response(status, text) == [kind |-> "response", status |-> status, text |-> text]

Upstreams == {Response(200, t) : t \in {B_png, B_noext, B_upper, B_nested_str, B_text,
                                        B_quoted, <<>>}}
             \cup {Response(404, B_error), Response(404, <<>>), Response(500, B_error)}
             \cup {Response(404, B_png), Response(404, B_text), Response(500, B_upper),
                   Response(502, B_text)}
             \cup {[NoUpstream EXCEPT !.kind = "noresponse"],
                   [NoUpstream EXCEPT !.kind = "setup"]}

EmptyDb == [tables |-> ToTables(EmptyConfig), legacy |-> EmptyConfig]

(***************************************************************************)
(* SpecDispatch: one request against every endpoint shape.  The registry   *)
(* was loaded from config.json, the database holding no configuration yet. *)
(***************************************************************************)
InitDispatch ==
    /\ impl \in Impls
    /\ enableFileOperations = TRUE
    /\ currentConfig \in DispatchConfigs
    /\ db = EmptyDb
    /\ file = currentConfig
    /\ reqs = [r \in ReqIds |-> IdleReq]
    /\ admin = NoAdmin

NextDispatch ==
    \/ \E rq \in Requests(currentConfig) : Dispatch(1, rq[1], rq[2])
    \/ \E u \in Upstreams : FetchReturn(1, u)

SpecDispatch == InitDispatch /\ [][NextDispatch]_vars

\* The outbound GET carries timeout: 15000, so the HTTP client settles every fetch:
\* with a response, without one, or with a local failure.
SpecDispatchFair == SpecDispatch /\ WF_vars(\E u \in Upstreams : FetchReturn(1, u))

(***************************************************************************)
(* Spec: requests in flight while the administrator replaces the registry. *)
(* The registries CA and CB differ in the url, the schema and the          *)
(* proxySettings of endpoint k and in baseTag.                             *)
(***************************************************************************)
CA ==
    Config((K_k :> Entry(U_x_slash, "proxy", "none", Undef,
                         <<Param(N_a, FALSE, V_d, NoValues)>>,
                         Settings(F_data_url, "returnJson", Undef)))
           @@ (K_p :> Entry(U_x_slash, "redirect", "special_pollinations", S_flux, <<>>,
                            NoSettings)),
           V_art)

CB ==
    Config((K_k :> Entry(U_y, "proxy", "none", Undef,
                         <<Param(N_b, FALSE, V_z, NoValues)>>,
                         Settings(S_url, "error", Undef)))
           @@ (K_p :> Entry(U_x_slash, "redirect", "special_pollinations", S_flux, <<>>,
                            NoSettings)),
           V_cat)

Snapshots == {CA, CB}

SpecRequests == {<<K_k, <<>>>>, <<K_p, << <<S_tags, V_cat>> >> >>}

SpecUpstreams == {Response(200, B_png)}

Init ==
    /\ impl \in Impls
    /\ enableFileOperations \in BOOLEAN
    /\ currentConfig = CA
    /\ db = EmptyDb
    /\ file = CA
    /\ reqs = [r \in ReqIds |-> IdleReq]
    /\ admin = NoAdmin

Next ==
    \/ \E r \in ReqIds, rq \in SpecRequests : Dispatch(r, rq[1], rq[2])
    \/ \E r \in ReqIds, u \in SpecUpstreams : FetchReturn(r, u)
    \/ \E newConfig \in Snapshots :
          \/ ConfigPost(FALSE, TRUE, newConfig, TRUE, TRUE)
          \/ ConfigPost(TRUE, FALSE, newConfig, TRUE, TRUE)
          \/ \E dbOk, fileOk \in BOOLEAN : ConfigPost(TRUE, TRUE, newConfig, dbOk, fileOk)
    \/ \E cookieOk \in BOOLEAN : ConfigGet(cookieOk)

Spec == Init /\ [][Next]_vars

(***************************************************************************)
(* SpecRestart: the administrator saves a registry, the process starts     *)
(* again, and a request is dispatched under the reloaded registry.         *)
(***************************************************************************)
InitRestart ==
    /\ impl \in Impls
    /\ enableFileOperations \in BOOLEAN
    /\ currentConfig = EmptyConfig
    /\ db = EmptyDb
    /\ file = EmptyConfig
    /\ reqs = [r \in ReqIds |-> IdleReq]
    /\ admin = NoAdmin

\* well-formed registries: every endpoint has its url and method, baseTag is a string
RestartConfigs ==
    {Config(K_k :> e, V_art) :
        e \in ForwardEntries \cup DrawEntries
              \cup {p \in ProxyEntries \cup PollinationsEntries :
                        Truthy(p.url) /\ (p.urlConstruction = "none" \/ Truthy(p.modelName))}}

NextRestart ==
    \/ \E newConfig \in RestartConfigs, dbOk, fileOk \in BOOLEAN :
          admin.route = "none" /\ ConfigPost(TRUE, TRUE, newConfig, dbOk, fileOk)
    \/ \E fileOk \in BOOLEAN : admin.route = "post" /\ Restart(fileOk)
    \/ \E rq \in Requests(admin.posted) : Dispatch(1, rq[1], rq[2])
    \/ \E u \in SpecUpstreams : FetchReturn(1, u)

SpecRestart == InitRestart /\ [][NextRestart]_vars

(***************************************************************************)
(* Vocabulary of the properties.                                           *)
(***************************************************************************)
\* the registry entry the lookup of request r read
EntryOf(r) == reqs[r].snap.apiUrls[reqs[r].apiKey]

\* request r went past the route guard and the lookup
Routed(r) ==
    /\ reqs[r].pc # "idle"
    /\ ~IsSystemRoute(impl, reqs[r].apiKey)
    /\ HasEntry(reqs[r].snap, reqs[r].apiKey)
    /\ EntryOf(r).method # "none"

SpecialConstructions == {"special_forward", "special_pollinations", "special_draw_redirect"}

\* request r was handled by the generic handler
Generic(r) == Routed(r) /\ EntryOf(r).urlConstruction \notin SpecialConstructions

Supplied(query, name) == \E i \in 1..Len(query) : query[i][1] = name

\* the schema entries whose required parameter the query omits
MissingRequired(schema, query) ==
    {i \in 1..Len(schema) : schema[i].required /\ ~Supplied(query, schema[i].name)}

\* the schema entries whose supplied value is outside validValues
InvalidSupplied(schema, query) ==
    {i \in 1..Len(schema) :
        /\ Supplied(query, schema[i].name)
        /\ schema[i].validValues # NoValues
        /\ \A j \in 1..Len(schema[i].validValues) :
              schema[i].validValues[j] # QueryGet(query, schema[i].name)}

\* the parameters a passing validation hands on, in schema order: the supplied value,
\* else the default
ExpectedPairs(schema, query) ==
    LET kept == SelectSeq(schema, LAMBDA p : Supplied(query, p.name) \/ p.defaultValue # Undef)
    IN  [i \in 1..Len(kept) |->
           <<kept[i].name,
             IF Supplied(query, kept[i].name) THEN QueryGet(query, kept[i].name)
             ELSE kept[i].defaultValue>>]

\* a URL string read back: what precedes the first "?" and the pairs after it
BeforeQuery(loc) == SubSeq(loc, 1, FirstOf(loc, {"?"}, 1) - 1)
QueryPairsOf(loc) == FormParse(Drop(loc, FirstOf(loc, {"?"}, 1)))

\* loc is base with pairs appended to its query string
IsBaseWithParams(loc, base, pairs) ==
    IF Len(pairs) = 0 THEN loc = base
    ELSE /\ QueryPairsOf(loc) = QueryPairsOf(base) \o pairs
         /\ BeforeQuery(loc) = IF URLParse(base).ok
                               THEN URLParse(base).origin \o URLParse(base).path
                               ELSE BeforeQuery(base)

\* the response of request r is a redirect / a client error / a server error
Redirected(r) == reqs[r].pc = "done" /\ reqs[r].resp.kind = "redirect"
ClientError(r) == reqs[r].pc = "done" /\ reqs[r].resp.kind = "json" /\ reqs[r].resp.status = 400
NoFetch(r) == reqs[r].fetches = 0

(***************************************************************************)
(* C1 (as stated): for every endpoint with method redirect and no          *)
(* urlConstruction, and every query that supplies all required parameters, *)
(* the answer is a redirect to the base URL with the validated parameters  *)
(* appended, and no outbound fetch is made.  (Read for the endpoints that  *)
(* have a base URL.)                                                       *)
(***************************************************************************)
C1_AsStated ==
    (/\ Generic(1)
     /\ EntryOf(1).method = "redirect"
     /\ Truthy(EntryOf(1).url)
     /\ MissingRequired(EntryOf(1).queryParams, reqs[1].query) = {})
    => /\ Redirected(1)
       /\ NoFetch(1)

C1_RedirectCase(r) ==
    /\ Generic(r)
    /\ EntryOf(r).method = "redirect"
    /\ Truthy(EntryOf(r).url)
    /\ MissingRequired(EntryOf(r).queryParams, reqs[r].query) = {}
    /\ InvalidSupplied(EntryOf(r).queryParams, reqs[r].query) = {}

(***************************************************************************)
(* C1 (amended): for every endpoint with method redirect, no               *)
(* urlConstruction and a non-empty url, and every query that supplies all  *)
(* required parameters and no value outside a declared validValues, the    *)
(* answer is a redirect whose location is the base URL with the validated  *)
(* parameters (supplied values and defaults, in schema order) appended to  *)
(* its query string, and no outbound fetch is made.                        *)
(***************************************************************************)
C1_GenericRedirect ==
    C1_RedirectCase(1)
    => /\ Redirected(1)
       /\ NoFetch(1)
       /\ IsBaseWithParams(reqs[1].resp.location, EntryOf(1).url,
                           ExpectedPairs(EntryOf(1).queryParams, reqs[1].query))

\* a redirect built from a base URL that has a query of its own, a supplied value that
\* needs encoding and a default
C1_Witness ==
    /\ C1_RedirectCase(1)
    /\ Redirected(1)
    /\ EntryOf(1).url = U_x_query
    /\ QueryGet(reqs[1].query, N_a) = V_space
    /\ Len(ExpectedPairs(EntryOf(1).queryParams, reqs[1].query)) = 2

HasMissingMessages(r) ==
    \A i \in MissingRequired(EntryOf(r).queryParams, reqs[r].query) :
        \E j \in 1..Len(reqs[r].resp.details) :
            /\ reqs[r].resp.details[j].kind = "missing"
            /\ reqs[r].resp.details[j].name = EntryOf(r).queryParams[i].name

(***************************************************************************)
(* C2 (as stated): for every query that omits a required parameter the     *)
(* answer is a 400 whose message list has a "missing required parameter"   *)
(* entry for every omitted required parameter, with no redirect and no     *)
(* outbound fetch.                                                         *)
(***************************************************************************)
C2_AsStated ==
    (/\ Routed(1)
     /\ MissingRequired(EntryOf(1).queryParams, reqs[1].query) # {})
    => /\ ClientError(1)
       /\ HasMissingMessages(1)
       /\ NoFetch(1)

(***************************************************************************)
(* C2 (amended): in generic dispatch (the endpoint's urlConstruction is    *)
(* none of the three special values), for every query that omits a         *)
(* required parameter the answer is a 400 whose message list has a         *)
(* "missing required parameter" entry for every omitted required           *)
(* parameter, with no redirect and no outbound fetch.                      *)
(***************************************************************************)
C2_MissingRequired ==
    (/\ Generic(1)
     /\ MissingRequired(EntryOf(1).queryParams, reqs[1].query) # {})
    => /\ ClientError(1)
       /\ HasMissingMessages(1)
       /\ ~Redirected(1)
       /\ NoFetch(1)

\* two required parameters omitted, two messages
C2_Witness ==
    /\ Generic(1)
    /\ Cardinality(MissingRequired(EntryOf(1).queryParams, reqs[1].query)) = 2
    /\ ClientError(1)
    /\ Len(reqs[1].resp.details) = 2

\* the generic handler built a target URL: it redirected to it or called the proxy with it
Constructed(r) == Generic(r) /\ (Redirected(r) \/ reqs[r].fetches > 0)

TargetOf(r) == IF reqs[r].fetches > 0 THEN reqs[r].targetUrl ELSE reqs[r].resp.location

HasPair(pairs, name, value) == \E i \in 1..Len(pairs) : pairs[i] = <<name, value>>

MessagesFor(r, name) ==
    {j \in 1..Len(reqs[r].resp.details) : reqs[r].resp.details[j].name = name}

(***************************************************************************)
(* C3: in parameter validation, for a declared parameter with validValues, *)
(* a supplied value that is not a member gives a 400 with an "invalid      *)
(* value" message for that parameter; a supplied member gives no message   *)
(* for that parameter and is the validated value, the one the target URL   *)
(* carries for it.                                                         *)
(***************************************************************************)
C3_ValidValues ==
    Generic(1) =>
        \A i \in 1..Len(EntryOf(1).queryParams) :
            LET p == EntryOf(1).queryParams[i]
                v == QueryGet(reqs[1].query, p.name)
            IN  (p.validValues # NoValues /\ Supplied(reqs[1].query, p.name)) =>
                    IF i \in InvalidSupplied(EntryOf(1).queryParams, reqs[1].query)
                    THEN /\ ClientError(1)
                         /\ \E j \in MessagesFor(1, p.name) :
                               reqs[1].resp.details[j].kind = "invalid"
                    ELSE /\ MessagesFor(1, p.name) = {}
                         /\ Constructed(1) => HasPair(QueryPairsOf(TargetOf(1)), p.name, v)

\* the value "c" supplied for a parameter that allows "a" and "b"
C3_Witness ==
    /\ Generic(1)
    /\ InvalidSupplied(EntryOf(1).queryParams, reqs[1].query) # {}
    /\ QueryGet(reqs[1].query, N_a) = V_c
    /\ ClientError(1)

\* the schema without its i-th entry
Without(schema, i) == SubSeq(schema, 1, i - 1) \o SubSeq(schema, i + 1, Len(schema))

\* the registry with the schema of apiKey replaced
WithSchema(cfg, apiKey, schema) ==
    [cfg EXCEPT !.apiUrls[apiKey].queryParams = schema]

(***************************************************************************)
(* C4: in generic dispatch a declared parameter that is absent from the    *)
(* query and has a defaultValue is in the constructed target URL with that *)
(* value; one that is absent, not required and without defaultValue leaves *)
(* the outcome as it is without its declaration.                           *)
(***************************************************************************)
C4_Defaults ==
    Generic(1) =>
        \A i \in 1..Len(EntryOf(1).queryParams) :
            LET p == EntryOf(1).queryParams[i]
                undeclared == HandleApiKey(impl, WithSchema(reqs[1].snap, reqs[1].apiKey,
                                                            Without(EntryOf(1).queryParams, i)),
                                           reqs[1].apiKey, reqs[1].query)
                declared == HandleApiKey(impl, reqs[1].snap, reqs[1].apiKey, reqs[1].query)
            IN  ~Supplied(reqs[1].query, p.name) =>
                    /\ (p.defaultValue # Undef /\ Constructed(1))
                       => HasPair(QueryPairsOf(TargetOf(1)), p.name, p.defaultValue)
                    /\ (p.defaultValue = Undef /\ ~p.required)
                       => /\ declared = undeclared
                          /\ Constructed(1)
                             => \A j \in 1..Len(QueryPairsOf(TargetOf(1))) :
                                   QueryPairsOf(TargetOf(1))[j][1] # p.name

\* a default carried into the URL next to a declared parameter that leaves no trace
C4_Witness ==
    /\ Constructed(1)
    /\ reqs[1].query = <<>>
    /\ Len(EntryOf(1).queryParams) = 2
    /\ EntryOf(1).queryParams[1].defaultValue = V_d
    /\ EntryOf(1).queryParams[2].defaultValue = Undef
    /\ QueryPairsOf(TargetOf(1)) = QueryPairsOf(EntryOf(1).url) \o << <<N_a, V_d>> >>

Pollinations(r) == Routed(r) /\ EntryOf(r).urlConstruction = "special_pollinations"

\* the text a percent-encoded segment stands for
RECURSIVE PctDecode(_)
PctDecode(s) ==
    IF s = <<>> THEN <<>>
    ELSE IF s[1] = "%" /\ Len(s) >= 3 /\ \E c \in DOMAIN PctCode : PctCode[c] = SubSeq(s, 1, 3)
         THEN <<CHOOSE c \in DOMAIN PctCode : PctCode[c] = SubSeq(s, 1, 3)>>
              \o PctDecode(Drop(s, 3))
    ELSE <<s[1]>> \o PctDecode(Tail(s))

\* seg is the percent-encoding of text: only unreserved characters and escapes
IsPctEncodingOf(seg, text) ==
    /\ \A i \in 1..Len(seg) : seg[i] \in UriUnreserved \cup {"%"}
    /\ PctDecode(seg) = text

PollinationsTail(baseTag, modelName) ==
    <<"%","2","c">> \o (IF baseTag = Undef THEN <<>> ELSE baseTag)
    \o <<"?","&","m","o","d","e","l","=">> \o modelName
    \o <<"&","n","o","l","o","g","o","=","t","r","u","e">>

(***************************************************************************)
(* C5: a special_pollinations endpoint answers a request with non-empty    *)
(* tags by a redirect to exactly                                           *)
(*   <url><percent-encoded tags>%2c<baseTag>?&model=<modelName>&nologo=true*)
(* (https://x/cat%2cart?&model=flux&nologo=true for tags cat, baseTag art, *)
(* modelName flux, url https://x/), whatever its method, without an        *)
(* outbound fetch; a request without tags gets a client error.             *)
(***************************************************************************)
C5_Pollinations ==
    Pollinations(1) =>
        LET tags == QueryGet(reqs[1].query, S_tags)
            e == EntryOf(1)
            loc == reqs[1].resp.location
            tail == PollinationsTail(reqs[1].snap.baseTag, e.modelName)
            seg == SubSeq(loc, Len(e.url) + 1, Len(loc) - Len(tail))
        IN  /\ NoFetch(1)
            /\ ~Truthy(tags) => ClientError(1)
            /\ Truthy(tags) =>
                  /\ Redirected(1)
                  /\ (e.url # Undef /\ e.modelName # Undef) =>
                        /\ loc = e.url \o seg \o tail
                        /\ IsPctEncodingOf(seg, tags)
                  /\ (/\ e.url = U_x_slash /\ tags = V_cat /\ e.modelName = S_flux
                      /\ reqs[1].snap.baseTag = V_art) => loc = L_example

\* tags "a,b c" sent to an endpoint whose method is proxy
C5_Witness ==
    /\ Pollinations(1) /\ Redirected(1)
    /\ EntryOf(1).method = "proxy"
    /\ EntryOf(1).url = U_x_slash /\ EntryOf(1).modelName = S_flux
    /\ reqs[1].snap.baseTag = V_art
    /\ QueryGet(reqs[1].query, S_tags) = V_tags

DrawRedirect(r) == Routed(r) /\ EntryOf(r).urlConstruction = "special_draw_redirect"

ModelEntries(r) ==
    SelectSeq(EntryOf(r).queryParams, LAMBDA p : p.name = S_model)

\* the model the request chooses: the query's, else the schema default, else flux
ChosenModel(r) ==
    IF Truthy(QueryGet(reqs[r].query, S_model)) THEN QueryGet(reqs[r].query, S_model)
    ELSE IF Len(ModelEntries(r)) > 0 /\ Truthy(ModelEntries(r)[1].defaultValue)
         THEN ModelEntries(r)[1].defaultValue
    ELSE S_flux

ValidModels(r) ==
    IF Len(ModelEntries(r)) > 0 /\ ModelEntries(r)[1].validValues # NoValues
    THEN ModelEntries(r)[1].validValues
    ELSE <<S_flux, S_turbo>>

ModelIsValid(r) == \E i \in 1..Len(ValidModels(r)) : ValidModels(r)[i] = ChosenModel(r)

(***************************************************************************)
(* C6: a special_draw_redirect endpoint answers a request with tags: with  *)
(* no model in the query and no default from a schema entry 'model', by a  *)
(* redirect to /flux?tags=<percent-encoded tags>; with a chosen model      *)
(* outside the valid set (validValues of the 'model' entry, else flux and  *)
(* turbo), by a client error naming the valid options and no redirect.     *)
(***************************************************************************)
C6_DrawRedirect ==
    (DrawRedirect(1) /\ Truthy(QueryGet(reqs[1].query, S_tags))) =>
        LET tags == QueryGet(reqs[1].query, S_tags)
            loc == reqs[1].resp.location
        IN  /\ (/\ ~Supplied(reqs[1].query, S_model)
                /\ ChosenModel(1) = S_flux
                /\ ModelIsValid(1))
               => /\ Redirected(1)
                  /\ SubSeq(loc, 1, 11) = <<"/","f","l","u","x","?","t","a","g","s","=">>
                  /\ IsPctEncodingOf(Drop(loc, 11), tags)
            /\ ~ModelIsValid(1)
               => /\ ClientError(1)
                  /\ reqs[1].resp.valid = ValidModels(1)
                  /\ ~Redirected(1)

\* request r got an upstream response with a status below 400
Fetched(r) ==
    /\ reqs[r].pc = "done" /\ reqs[r].fetches > 0
    /\ reqs[r].upstream.kind = "response" /\ reqs[r].upstream.status < 400

\* what the dotted path resolves to in the JSON body of the upstream response
Resolved(r) ==
    LET body == JSONParse(reqs[r].upstream.text)
    IN  IF Truthy(reqs[r].settings.imageUrlField) /\ reqs[r].upstream.text # <<>> /\ body.ok
        THEN WalkStrict(body.val, Split(reqs[r].settings.imageUrlField, "."))
        ELSE JUndef

ImageUrlFound(r) == Resolved(r).t = "str" /\ MatchesImageExt(Resolved(r).v)

C8_ErrorNamesTarget ==
    (Fetched(1) /\ ~ImageUrlFound(1) /\ reqs[1].settings.fallbackAction = "error")
    => /\ reqs[1].resp.kind = "json" /\ reqs[1].resp.status = 404
       /\ reqs[1].resp.targetUrl = reqs[1].targetUrl
       /\ ~Redirected(1)

\* request r is as far as a request handled entirely against cfg would be
FromOneSnapshot(r, cfg) ==
    LET h == HandleApiKey(impl, cfg, reqs[r].apiKey, reqs[r].query)
    IN  IF reqs[r].pc = "fetching"
        THEN /\ h.proxy
             /\ reqs[r].targetUrl = h.targetUrl
             /\ SettingsInUse(reqs[r]) = h.settings
        ELSE IF h.proxy
             THEN /\ reqs[r].fetches = 1
                  /\ reqs[r].resp = ProxyRespond(impl, h.targetUrl, h.settings, reqs[r].upstream)
             ELSE /\ reqs[r].fetches = 0
                  /\ reqs[r].resp = h.resp

(***************************************************************************)
(* C9: registry replacement is atomic for concurrent dispatch: under every *)
(* interleaving of POST /config with GET /<apiKey> requests, suspended     *)
(* ones included, all a request uses (endpoint definition, schema,         *)
(* proxySettings, baseTag) comes from one snapshot, the old or the new.    *)
(***************************************************************************)
C9_OneSnapshot ==
    \A r \in ReqIds :
        reqs[r].pc # "idle" =>
            /\ reqs[r].snap \in Snapshots
            /\ FromOneSnapshot(r, reqs[r].snap)

\* a request suspended since the old snapshot, one answered from the new
C9_Witness ==
    /\ reqs[1].pc = "fetching" /\ reqs[1].snap = CA
    /\ currentConfig = CB
    /\ reqs[2].pc = "done" /\ reqs[2].snap = CB /\ reqs[2].fetches = 1
    /\ FromOneSnapshot(1, CA) /\ ~FromOneSnapshot(1, CB)
    /\ FromOneSnapshot(2, CB) /\ ~FromOneSnapshot(2, CA)

SameInputs(r1, r2) ==
    /\ reqs[r1].pc = "done" /\ reqs[r2].pc = "done"
    /\ reqs[r1].apiKey = reqs[r2].apiKey
    /\ reqs[r1].query = reqs[r2].query
    /\ reqs[r1].snap = reqs[r2].snap
    /\ reqs[r1].upstream = reqs[r2].upstream

(***************************************************************************)
(* C10: dispatch is deterministic: two identical GET /<apiKey> requests    *)
(* handled against the same snapshot with the same upstream response have  *)
(* the same outcome (redirect location, error status and messages, or      *)
(* returned body).                                                         *)
(***************************************************************************)
C10_Deterministic ==
    \A r1, r2 \in ReqIds :
        SameInputs(r1, r2) =>
            /\ reqs[r1].resp = reqs[r2].resp
            /\ reqs[r1].fetches = reqs[r2].fetches
            /\ reqs[r1].targetUrl = reqs[r2].targetUrl

\* the same proxied request twice, the registry replaced after the first was answered
C10_Witness ==
    /\ SameInputs(1, 2)
    /\ reqs[1].fetches = 1 /\ reqs[1].snap = CA
    /\ reqs[1].upstream = Response(200, B_png)
    /\ reqs[1].resp.kind = "redirect" /\ reqs[2].resp.location = L_png
    /\ currentConfig = CB

\* the names the route guard of the running server reserves
ReservedNames ==
    IF impl = "index" THEN {S_config, S_admin}
    ELSE {S_config, S_admin, S_admin_login, S_admin_logout, S_api}

\* the key of request r has a "." in it or is a reserved name
Guarded(r) ==
    \/ \E i \in 1..Len(reqs[r].apiKey) : reqs[r].apiKey[i] = "."
    \/ reqs[r].apiKey \in ReservedNames

\* the dispatcher declined request r: next(), and nothing else
Declined(r) ==
    /\ reqs[r].pc = "done"
    /\ reqs[r].resp = RespNext
    /\ NoFetch(r)

(***************************************************************************)
(* C11: a request whose apiKey contains a "." or equals a reserved system  *)
(* name is declined by the dispatcher (next()), also when the registry has *)
(* an endpoint under that key: no redirect, no error response, no fetch.   *)
(***************************************************************************)
C11_GuardDeclines ==
    (reqs[1].pc # "idle" /\ Guarded(1)) => Declined(1)

\* the key "config" declined although the registry has a redirect endpoint under it
C11_Witness ==
    /\ reqs[1].pc = "done"
    /\ reqs[1].apiKey = S_config
    /\ HasEntry(reqs[1].snap, S_config)
    /\ reqs[1].snap.apiUrls[S_config].method = "redirect"
    /\ Declined(1)

(***************************************************************************)
(* C12: a request whose apiKey is absent from the registry snapshot, or    *)
(* whose endpoint definition has no method, is declined (next()): the      *)
(* dispatcher produces no error response, no redirect and no fetch.        *)
(***************************************************************************)
C12_MissDeclines ==
    (/\ reqs[1].pc # "idle"
     /\ \/ reqs[1].apiKey \notin DOMAIN reqs[1].snap.apiUrls
        \/ reqs[1].snap.apiUrls[reqs[1].apiKey].method = "none")
    => Declined(1)

\* an endpoint without method that has a url and a special construction, declined
C12_Witness ==
    /\ reqs[1].pc = "done"
    /\ ~Guarded(1)
    /\ HasEntry(reqs[1].snap, reqs[1].apiKey)
    /\ EntryOf(1).method = "none"
    /\ EntryOf(1).urlConstruction = "special_pollinations"
    /\ Truthy(QueryGet(reqs[1].query, S_tags))
    /\ Declined(1)

\* the violations of the generic schema the query of request r has
Violations(r) ==
    MissingRequired(EntryOf(r).queryParams, reqs[r].query)
    \cup InvalidSupplied(EntryOf(r).queryParams, reqs[r].query)

\* the response of request r names the missing raw parameter tags
NamesMissingTags(r) ==
    \/ reqs[r].resp.error = "missing_tags"
    \/ \E j \in 1..Len(reqs[r].resp.details) :
          reqs[r].resp.details[j].kind = "missing" /\ reqs[r].resp.details[j].name = S_tags

\* the response of request r names the invalid model
NamesInvalidModel(r) ==
    \/ reqs[r].resp.error = "invalid_model"
    \/ \E j \in 1..Len(reqs[r].resp.details) :
          reqs[r].resp.details[j].kind = "invalid" /\ reqs[r].resp.details[j].name = S_model

(***************************************************************************)
(* C13: every client input error response names every violation present   *)
(* in the request, never only the first: a generic validation that records *)
(* an error gives one 400 that lists a message for every missing required  *)
(* parameter and every invalid value and uses none of the accepted values; *)
(* a special_draw_redirect request without tags and with an invalid model  *)
(* gets a 400 that names both.                                             *)
(***************************************************************************)
C13_AllViolations ==
    /\ (Generic(1) /\ Violations(1) # {})
       => /\ ClientError(1)
          /\ HasMissingMessages(1)
          /\ \A i \in InvalidSupplied(EntryOf(1).queryParams, reqs[1].query) :
                \E j \in MessagesFor(1, EntryOf(1).queryParams[i].name) :
                    reqs[1].resp.details[j].kind = "invalid"
          /\ Len(reqs[1].resp.details) = Cardinality(Violations(1))
          /\ ~Constructed(1)
    /\ (/\ DrawRedirect(1)
        /\ ~Truthy(QueryGet(reqs[1].query, S_tags))
        /\ Supplied(reqs[1].query, S_model)
        /\ ~ModelIsValid(1))
       => /\ ClientError(1)
          /\ NamesMissingTags(1)
          /\ NamesInvalidModel(1)

\* request r was answered with a server error
ServerError(r) == reqs[r].pc = "done" /\ reqs[r].resp.kind = "json" /\ reqs[r].resp.status = 500

(***************************************************************************)
(* C14 as stated: a generic route whose url is empty or missing is         *)
(* answered with a 500 server error, with no redirect and no fetch,        *)
(* whatever the request.                                                   *)
(***************************************************************************)
C14_AsStated ==
    (Generic(1) /\ ~Truthy(EntryOf(1).url)) =>
        (ServerError(1) /\ ~Redirected(1) /\ NoFetch(1))

(***************************************************************************)
(* C14 (amended): a generic route whose url is empty or missing answers a  *)
(* request whose parameters pass validation with the 500 server error      *)
(* "config_url_missing", with no redirect and no fetch; a request that     *)
(* fails validation gets the 400 client error instead.                     *)
(***************************************************************************)
C14_UrlMissing ==
    (Generic(1) /\ ~Truthy(EntryOf(1).url)) =>
        IF Violations(1) = {}
        THEN /\ ServerError(1)
             /\ reqs[1].resp.error = "config_url_missing"
             /\ NoFetch(1)
        ELSE ClientError(1) /\ NoFetch(1)

C14_Witness ==
    /\ Generic(1)
    /\ EntryOf(1).url = Undef
    /\ EntryOf(1).method = "proxy"
    /\ Len(EntryOf(1).queryParams) > 0
    /\ Violations(1) = {}
    /\ ServerError(1)

\* request r was handled by the special_forward branch
Forward(r) == Routed(r) /\ EntryOf(r).urlConstruction = "special_forward"

\* the field the forward request r names for the image URL
ForwardField(r) ==
    LET field == QueryGet(reqs[r].query, S_field)
        dflt == EntryOf(r).proxySettings.imageUrlFieldFromParamDefault
    IN  IF Truthy(field) THEN field ELSE IF Truthy(dflt) THEN dflt ELSE S_url

(***************************************************************************)
(* C15: a special_forward endpoint, whatever its method: a request without *)
(* the raw parameter url gets a client error and no fetch; a request with  *)
(* url is handed to the proxy executor, which fetches exactly that url     *)
(* once with imageUrlField set to the raw parameter field (else the        *)
(* configured imageUrlFieldFromParamDefault, else 'url'); a redirect, if   *)
(* any, is to the image URL extracted from the upstream body, never one    *)
(* issued without a fetch.                                                 *)
(***************************************************************************)
C15_SpecialForward ==
    Forward(1) =>
        IF ~Truthy(QueryGet(reqs[1].query, S_url))
        THEN ClientError(1) /\ NoFetch(1)
        ELSE /\ reqs[1].fetches = 1
             /\ reqs[1].targetUrl = QueryGet(reqs[1].query, S_url)
             /\ reqs[1].settings.imageUrlField = ForwardField(1)
             /\ reqs[1].settings.fallbackAction = EntryOf(1).proxySettings.fallbackAction
             /\ Redirected(1) =>
                   /\ Fetched(1)
                   /\ ImageUrlFound(1)
                   /\ reqs[1].resp.location = Resolved(1).v

C15_Witness ==
    /\ Forward(1)
    /\ EntryOf(1).method = "redirect"
    /\ Truthy(QueryGet(reqs[1].query, S_url))
    /\ ~Supplied(reqs[1].query, S_field)
    /\ ForwardField(1) = F_data_url
    /\ Redirected(1)
    /\ reqs[1].resp.location # EntryOf(1).url

\* the fetch of request r got a response with an error status
UpstreamFailed(r) ==
    /\ reqs[r].pc = "done" /\ reqs[r].fetches > 0
    /\ reqs[r].upstream.kind = "response" /\ reqs[r].upstream.status >= 400

TransportError(r) ==
    /\ reqs[r].pc = "done" /\ reqs[r].fetches > 0
    /\ reqs[r].upstream.kind = "response" /\ ~ValidateStatus(reqs[r].upstream.status)

\* the fetch of request r failed in the way named by kind
FetchFailed(r, kind) ==
    reqs[r].pc = "done" /\ reqs[r].fetches > 0 /\ reqs[r].upstream.kind = kind

IsFetchFailure(upstream) ==
    \/ upstream.kind \in {"noresponse", "setup"}
    \/ upstream.kind = "response" /\ ~ValidateStatus(upstream.status)

(***************************************************************************)
(* C18: no retry.  A request never has more than one outbound fetch; the   *)
(* fetch is issued by the dispatcher's own step and by no later step; the  *)
(* step that ends a fetch ends the request with its response, and when the *)
(* fetch failed that response is the error response (status 500 or above), *)
(* with no second fetch in between.                                        *)
(***************************************************************************)
C18_NoRetry ==
    [][/\ reqs'[1].fetches <= 1
       /\ reqs'[1].fetches > reqs[1].fetches => reqs[1].pc = "idle"
       /\ (reqs[1].pc = "fetching" /\ reqs'[1] # reqs[1]) =>
             /\ reqs'[1].pc = "done"
             /\ reqs'[1].fetches = 1
             /\ IsFetchFailure(reqs'[1].upstream) =>
                   /\ reqs'[1].resp.kind = "json"
                   /\ reqs'[1].resp.status >= 500]_vars

C18_Witness ==
    /\ reqs[1].pc = "done"
    /\ reqs[1].fetches = 1
    /\ reqs[1].upstream.kind = "noresponse"
    /\ reqs[1].resp.status = 504

\* the terminal outcome of request r: decline, redirect, error response or body response
Outcome(r) ==
    IF reqs[r].resp.kind = "next" THEN "decline"
    ELSE IF reqs[r].resp.kind = "redirect" THEN "redirect"
    ELSE IF reqs[r].resp.kind = "json" /\ reqs[r].resp.status >= 400 THEN "error"
    ELSE IF reqs[r].resp.kind = "json" /\ reqs[r].resp.status = 200 THEN "body"
    ELSE "none"

\* a request has an outcome exactly when it is finished
OutcomeWhenDone(r) == (reqs[r].pc = "done") <=> (Outcome(r) # "none")

(***************************************************************************)
(* C19: every dispatch request reaches exactly one terminal outcome.  A    *)
(* request that was dispatched is eventually finished; a request has an    *)
(* outcome (decline, redirect, error response or body response) exactly    *)
(* when it is finished, nothing being emitted before; and once a response  *)
(* was produced, no later step changes it or anything else of the request. *)
(***************************************************************************)
C19_OneOutcome ==
    /\ []OutcomeWhenDone(1)
    /\ [][reqs[1].resp # NoResp => reqs'[1] = reqs[1]]_vars
    /\ (reqs[1].pc # "idle") ~> (reqs[1].pc = "done")

\* the proxy executor's catch block ended the request of a proxy route
C19_Witness ==
    /\ reqs[1].pc = "done"
    /\ reqs[1].fetches = 1
    /\ reqs[1].upstream.kind = "setup"
    /\ Outcome(1) = "error"

\* the part of the store loadConfig reads: the normalized tables when they hold an
\* endpoint, else (index.js) the legacy row when it holds one, else config.json
StoreHolds(cfg) ==
    IF DOMAIN db.tables.endpoints # {} THEN db.tables = ToTables(cfg)
    ELSE IF impl = "index" /\ db.legacy # EmptyConfig THEN db.legacy = cfg
    ELSE file = cfg

(***************************************************************************)
(* C20: after a POST /config that reports success (status 200), the        *)
(* configuration store holds the posted snapshot (the part of it the next  *)
(* load reads is what saving this snapshot writes) and the in-memory       *)
(* registry equals the posted snapshot.                                    *)
(***************************************************************************)
C20_SavedAndInstalled ==
    (admin.route = "post" /\ admin.status = 200) =>
        /\ currentConfig = admin.posted
        /\ StoreHolds(admin.posted)

\* the names the schema of request r declares
DeclaredNames(r) == {EntryOf(r).queryParams[i].name : i \in 1..Len(EntryOf(r).queryParams)}

\* the query of request r without its undeclared parameters
DeclaredOnly(r) ==
    LET IsDeclared(pair) == pair[1] \in DeclaredNames(r)
    IN  SelectSeq(reqs[r].query, IsDeclared)

(***************************************************************************)
(* C21: in generic dispatch the undeclared query parameters have no        *)
(* effect: the handler decides the request exactly as it decides the same  *)
(* request without them (same response or same fetch with the same target  *)
(* URL and settings); every parameter name in the constructed target URL   *)
(* is declared or comes from the endpoint's own url; every error message   *)
(* is about a declared parameter.                                          *)
(***************************************************************************)
C21_UndeclaredIgnored ==
    Generic(1) =>
        LET h == HandleApiKey(impl, reqs[1].snap, reqs[1].apiKey, DeclaredOnly(1))
        IN  /\ h.proxy = (reqs[1].fetches > 0)
            /\ h.targetUrl = reqs[1].targetUrl
            /\ h.settings = reqs[1].settings
            /\ ~h.proxy => h.resp = reqs[1].resp
            /\ Constructed(1) =>
                  \A j \in 1..Len(QueryPairsOf(TargetOf(1))) :
                      \/ QueryPairsOf(TargetOf(1))[j][1] \in DeclaredNames(1)
                      \/ \E k \in 1..Len(QueryPairsOf(EntryOf(1).url)) :
                            QueryPairsOf(EntryOf(1).url)[k] = QueryPairsOf(TargetOf(1))[j]
            /\ \A j \in 1..Len(reqs[1].resp.details) :
                  reqs[1].resp.details[j].name \in DeclaredNames(1)

\* a and the undeclared b and z supplied; only a reaches the target URL
C21_Witness ==
    /\ Generic(1)
    /\ Redirected(1)
    /\ DeclaredNames(1) = {N_a}
    /\ Supplied(reqs[1].query, N_a)
    /\ Supplied(reqs[1].query, N_b)
    /\ Supplied(reqs[1].query, N_z)
    /\ QueryPairsOf(TargetOf(1)) = QueryPairsOf(EntryOf(1).url) \o << <<N_a, V_a>> >>

\* a POST /config has installed a snapshot; admin.posted is the last one installed
Installed == admin.posted # EmptyConfig

(***************************************************************************)
(* C22: once a POST /config has installed a snapshot, every dispatch that  *)
(* starts afterwards makes its lookup in the snapshot installed last, and  *)
(* every authorized GET /config that starts afterwards returns the         *)
(* snapshot installed last.                                                *)
(***************************************************************************)
C22_ReadsSeeInstalled ==
    [][/\ \A r \in ReqIds :
             (Installed /\ reqs[r].pc = "idle" /\ reqs'[r].pc # "idle") =>
                 reqs'[r].snap = admin.posted
       /\ (Installed /\ admin'.route = "get" /\ admin'.status = 200 /\ admin'.posted = admin.posted)
             => admin'.body = admin.posted]_vars

\* after CB replaced the startup registry CA, a dispatch and a GET /config read CB
C22_Witness ==
    /\ admin.route = "get" /\ admin.status = 200
    /\ admin.posted = CB /\ admin.body = CB
    /\ reqs[1].pc # "idle" /\ reqs[1].snap = CA
    /\ reqs[2].pc # "idle" /\ reqs[2].snap = CB

\* request r was handled by one of the three special branches
Special(r) == Routed(r) /\ EntryOf(r).urlConstruction \in SpecialConstructions

\* the state of request r is what the handler result h leads to
DecidedAs(r, h) ==
    /\ h.proxy = (reqs[r].fetches > 0)
    /\ h.targetUrl = reqs[r].targetUrl
    /\ h.settings = reqs[r].settings
    /\ ~h.proxy => h.resp = reqs[r].resp

\* what the handler does with the request of r when the endpoint has the given schema
WithQueryParams(r, schema) ==
    HandleApiKey(impl, WithSchema(reqs[r].snap, reqs[r].apiKey, schema),
                 reqs[r].apiKey, reqs[r].query)

\* the schema reduced to what special_draw_redirect reads of it: the default and the
\* valid values of its first 'model' entry
ModelRuleOnly(r) ==
    IF Len(ModelEntries(r)) = 0 THEN <<>>
    ELSE <<[ModelEntries(r)[1] EXCEPT !.required = FALSE]>>

(***************************************************************************)
(* C23 as stated: on an endpoint with a special urlConstruction the rules  *)
(* of queryParams produce no error: a request answered with a client      *)
(* error is answered the same when the endpoint declares no queryParams.   *)
(***************************************************************************)
C23_AsStated ==
    (Special(1) /\ ClientError(1)) => DecidedAs(1, WithQueryParams(1, <<>>))

(***************************************************************************)
(* C23 (amended): on an endpoint with a special urlConstruction the        *)
(* generic validation never runs: no response is the generic 'invalid      *)
(* parameters' error and no required flag has any effect.  special_forward *)
(* and special_pollinations decide the request as if the endpoint declared *)
(* no queryParams; special_draw_redirect decides it from the defaultValue  *)
(* and validValues of the first queryParams entry named model alone, whose *)
(* validValues can give the branch's own 'invalid model' error.            *)
(***************************************************************************)
C23_SpecialSkipsGeneric ==
    Special(1) =>
        /\ reqs[1].resp.error # "invalid_params"
        /\ reqs[1].resp.details = <<>>
        /\ IF EntryOf(1).urlConstruction = "special_draw_redirect"
           THEN DecidedAs(1, WithQueryParams(1, ModelRuleOnly(1)))
           ELSE DecidedAs(1, WithQueryParams(1, <<>>))

\* a special_forward endpoint whose schema requires a and admits only b for it fetches
\* for a request that gives a another value
C23_Witness ==
    /\ Special(1)
    /\ EntryOf(1).urlConstruction = "special_forward"
    /\ Violations(1) # {}
    /\ Truthy(QueryGet(reqs[1].query, S_url))
    /\ reqs[1].fetches = 1

\* what the handler decided for request r in the snapshot its lookup read
AtLookup(r) == HandleApiKey(impl, reqs[r].snap, reqs[r].apiKey, reqs[r].query)

(***************************************************************************)
(* C24: a proxy dispatch suspended in its outbound fetch is not affected   *)
(* by a registry replacement.  A step that replaces the registry leaves    *)
(* the suspended request as it is; the step that completes the fetch       *)
(* finishes the request with the response the proxy executor gives for the *)
(* target URL, imageUrlField and fallbackAction of the snapshot the lookup *)
(* read, whatever the registry holds by then.                              *)
(***************************************************************************)
C24_SuspendedUnaffected ==
    [][\A r \in ReqIds :
          /\ (reqs[r].pc = "fetching" /\ currentConfig' # currentConfig)
                => reqs'[r] = reqs[r]
          /\ (reqs[r].pc = "fetching" /\ reqs'[r].pc = "done") =>
                /\ reqs'[r].snap = reqs[r].snap
                /\ reqs'[r].targetUrl = AtLookup(r).targetUrl
                /\ reqs'[r].settings = AtLookup(r).settings
                /\ reqs'[r].resp = ProxyRespond(impl, AtLookup(r).targetUrl,
                                                AtLookup(r).settings, reqs'[r].upstream)]_vars

\* dispatched under CB, finished under CA: the 404 of CB's fallbackAction error, where
\* CA's imageUrlField would have given a redirect
C24_Witness ==
    /\ reqs[1].pc = "done" /\ reqs[1].fetches = 1
    /\ reqs[1].snap = CB /\ currentConfig = CA /\ admin.posted = CA
    /\ reqs[1].settings = CB.apiUrls[K_k].proxySettings
    /\ reqs[1].resp.status = 404
    /\ ProxyRespond(impl, reqs[1].targetUrl, CA.apiUrls[K_k].proxySettings,
                    reqs[1].upstream).kind = "redirect"

\* the fetch of request r is over and the request has its response
Released(r) ==
    /\ reqs[r].pc = "done"
    /\ reqs[r].upstream # NoUpstream
    /\ reqs[r].resp # NoResp

(***************************************************************************)
(* C25: every dispatch that starts an outbound fetch eventually produces   *)
(* its response and releases the fetch, given that the fetch completes or  *)
(* is cut off by the 15-second timeout: a request in its fetch is          *)
(* eventually finished, with the outcome of the fetch received and a       *)
(* response produced, and a suspended request is always one whose fetch    *)
(* can still settle.                                                       *)
(***************************************************************************)
C25_FetchReleased ==
    /\ (reqs[1].pc = "fetching") ~> Released(1)
    /\ [](reqs[1].pc = "fetching" =>
             /\ reqs[1].fetches = 1
             /\ ENABLED (\E u \in Upstreams : FetchReturn(1, u)))

\* a forwarded fetch cut off by the timeout
C25_Witness ==
    /\ Released(1)
    /\ Forward(1)
    /\ reqs[1].upstream.kind = "noresponse"
    /\ reqs[1].resp.status = 504

\* the handler results h1 and h2 give the same outcome, whatever the fetch returns
SameOutcome(h1, h2) ==
    /\ h1.proxy = h2.proxy
    /\ h1.targetUrl = h2.targetUrl
    /\ IF h1.proxy
       THEN \A u \in Upstreams :
               ProxyRespond(impl, h1.targetUrl, h1.settings, u)
                   = ProxyRespond(impl, h2.targetUrl, h2.settings, u)
       ELSE h1.resp = h2.resp

(***************************************************************************)
(* C26: save/load round trip.  After a POST /config reported success and   *)
(* wrote the snapshot to the database, and loadConfig rebuilt the registry *)
(* from the store, a dispatch request has the same outcome under the       *)
(* reloaded registry as under the snapshot that was saved.                 *)
(***************************************************************************)
C26_RoundTrip ==
    (/\ admin.route = "load" /\ admin.status = 200
     /\ db.tables = ToTables(admin.posted)
     /\ reqs[1].pc # "idle")
    => /\ reqs[1].snap = LoadConfig(impl, db, file)
       /\ SameOutcome(AtLookup(1),
                      HandleApiKey(impl, admin.posted, reqs[1].apiKey, reqs[1].query))

\* the last /config exchange was a POST that passed the cookie and the format check
PostAccepted == admin.route = "post" /\ admin.status \notin {400, 401}

\* neither the database nor config.json holds the snapshot posted last
NotPersisted == db.tables # ToTables(admin.posted) /\ file # admin.posted

(***************************************************************************)
(* C27: a POST /config whose body passes the format check replaces the     *)
(* in-memory registry with the posted snapshot, and the registry equals    *)
(* the posted snapshot whether the answer is success or the 500 of failed  *)
(* persistence; when neither the database nor the file took the snapshot   *)
(* the answer is 500, and a dispatch that starts then reads the posted     *)
(* snapshot.                                                               *)
(***************************************************************************)
C27_RegistryFirst ==
    [][/\ PostAccepted' =>
             /\ admin'.status \in {200, 500}
             /\ currentConfig' = admin'.posted
             /\ NotPersisted' => admin'.status = 500
       /\ \A r \in ReqIds :
             (PostAccepted /\ reqs[r].pc = "idle" /\ reqs'[r].pc # "idle")
                 => reqs'[r].snap = admin.posted]_vars

\* CB was posted and nothing of it persisted; the answer was 500 and a request was
\* dispatched under CB
C27_Witness ==
    /\ PostAccepted /\ admin.status = 500
    /\ admin.posted = CB /\ currentConfig = CB
    /\ db = EmptyDb /\ file = CA
    /\ reqs[1].pc = "done" /\ reqs[1].snap = CB

(***************************************************************************)
(* C28: after startup the in-memory registry changes only through a POST   *)
(* /config with the valid admin cookie and a body with apiUrls: a step     *)
(* that changes the registry is such a POST (answered 200 or 500, the      *)
(* registry becoming the posted snapshot); a POST answered 401 or 400, a   *)
(* GET /config, a dispatch and the completion of a fetch leave it as it    *)
(* is.                                                                     *)
(***************************************************************************)
C28_OnlyAuthorizedPost ==
    [][/\ currentConfig' # currentConfig =>
             /\ admin'.route = "post"
             /\ admin'.status \in {200, 500}
             /\ currentConfig' = admin'.posted
       /\ (admin' # admin /\ admin'.route = "post" /\ admin'.status \in {400, 401})
             => currentConfig' = currentConfig
       /\ (admin'.route = "get" \/ reqs' # reqs) => currentConfig' = currentConfig]_vars

\* a rejected POST, an authorized GET before it and two dispatches: the registry is still
\* the one loaded at startup
C28_Witness ==
    /\ admin.route = "post" /\ admin.status = 401
    /\ admin.body = EmptyConfig /\ admin.posted = EmptyConfig
    /\ currentConfig = CA
    /\ reqs[1].pc = "done" /\ reqs[2].pc = "done"

\* the schema entries that are required, have a defaultValue and are absent from the query
RequiredWithDefault(r) ==
    {i \in 1..Len(EntryOf(r).queryParams) :
        /\ EntryOf(r).queryParams[i].required
        /\ EntryOf(r).queryParams[i].defaultValue # Undef
        /\ ~Supplied(reqs[r].query, EntryOf(r).queryParams[i].name)}

(***************************************************************************)
(* C29: in generic validation the required rule comes before the default   *)
(* rule: a declared parameter that is absent from the query, required and  *)
(* has a defaultValue gets a 'missing required parameter' message in a     *)
(* client error; its default is not substituted: no target URL is built,   *)
(* nothing is fetched and nothing redirects.                               *)
(***************************************************************************)
C29_RequiredBeforeDefault ==
    (Generic(1) /\ RequiredWithDefault(1) # {}) =>
        /\ ClientError(1)
        /\ \A i \in RequiredWithDefault(1) :
              \E j \in MessagesFor(1, EntryOf(1).queryParams[i].name) :
                  reqs[1].resp.details[j].kind = "missing"
        /\ NoFetch(1)
        /\ reqs[1].targetUrl = Undef
        /\ reqs[1].resp.location = Undef

\* a required with default d and b optional with default d, neither supplied: one message
C29_Witness ==
    /\ Generic(1)
    /\ reqs[1].query = <<>>
    /\ Len(EntryOf(1).queryParams) = 2
    /\ RequiredWithDefault(1) = {1}
    /\ EntryOf(1).queryParams[1].defaultValue = V_d
    /\ EntryOf(1).queryParams[2].defaultValue = V_d
    /\ ClientError(1)
    /\ Len(reqs[1].resp.details) = 1

(***************************************************************************)
(* C30: dispatch is read-only on the registry: a step that handles a GET   *)
(* /<apiKey> request or completes its fetch leaves the current snapshot    *)
(* as it is (every endpoint definition with its proxySettings and          *)
(* queryParams, and baseTag), the special_forward branch with the          *)
(* caller's field included, and leaves the snapshot each earlier request   *)
(* read as it was.                                                         *)
(***************************************************************************)
C30_DispatchReadOnly ==
    [][reqs' # reqs =>
          /\ currentConfig' = currentConfig
          /\ \A r \in ReqIds : reqs[r].pc # "idle" => reqs'[r].snap = reqs[r].snap]_vars

\* a forwarded request with field=data.url was answered; the endpoint's proxySettings
\* still have no imageUrlField
C30_Witness ==
    /\ Forward(1) /\ reqs[1].pc = "done" /\ reqs[1].fetches = 1
    /\ QueryGet(reqs[1].query, S_field) = F_data_url
    /\ reqs[1].settings.imageUrlField = F_data_url
    /\ currentConfig = reqs[1].snap
    /\ currentConfig.apiUrls[K_k].proxySettings.imageUrlField = Undef

====
